---- MODULE Spec2Model ----
(***************************************************************************)
(* Model of the quality metrics and defect-detection engine of the optical *)
(* spectrum analyzer (src/src/quality_classifier.py).                       *)
(*                                                                         *)
(* Arrays are 1-based sequences of integers (wavelength in nm,             *)
(* transmission in percent).  Quotients the code computes in floating      *)
(* point (means, derivatives, moving averages) are kept as exact rationals *)
(* <<numerator, denominator>> with a positive denominator, and compared by *)
(* cross-multiplication.                                                   *)
(***************************************************************************)
EXTENDS Integers, Sequences, FiniteSets, TLC

\* -------------------------------------------------------------- bounds
\* Spectra have 0..MaxLen points.
MaxLen == 21
\* A dip of the input family is 1..MaxWidth points wide.
MaxWidth == 2
\* _classify_grade is called at most MaxGradeCalls times in a behaviour.
MaxGradeCalls == 2
\* A session makes at most MaxCalls calls on one classifier.
MaxCalls == 3
\* A dataset holds the rows of at most MaxSamples samples.
MaxSamples == 2
\* load_multiple_files is given at most MaxFiles paths.
MaxFiles == 2

\* ------------------------------------------------------------- the state
VARIABLES
    visible_threshold,      \* self.visible_threshold
    bandwidth_threshold,    \* self.bandwidth_threshold
    wavelength_nm,          \* the caller's wavelength array
    transmission_pct,       \* the caller's transmission array
    metrics,                \* what calculate_metrics returned or raised
    detection,              \* the locals of _detect_defects at its return
    classified,             \* the calls of _classify_grade: <<avg, grade>> pairs
    calls,                  \* the calls made on the classifier, oldest first
    batch,                  \* analyze_dataframe: df, samples, loop position, results
    quality_results,        \* OpticalSpectrumAnalyzer.quality_results
    loader,                 \* the SpectroscopyDataLoader and its last call
    analyzer                \* OpticalSpectrumAnalyzer.data, what it wrote, its last call

vars == <<visible_threshold, bandwidth_threshold, wavelength_nm,
          transmission_pct, metrics, detection, classified, calls,
          batch, quality_results, loader, analyzer>>

\* ----------------------------------------------------- program constants
VISIBLE_LO == 400
VISIBLE_HI == 700
GRADE_EXCELLENT == 90
GRADE_GOOD == 80
GRADE_FAIR == 70
\* DEFECT_GRADIENT_THRESHOLD = 0.5 %/nm, as the rational 1/2
DEFECT_GRADIENT_THRESHOLD == <<1, 2>>
\* DEFECT_DROP_THRESHOLD * 100 percentage points
DEFECT_DROP_PCT == 10
CLUSTER_GAP == 10
LOCAL_WINDOW == 20
DEDUP_RADIUS == 50
SMOOTH_MAX_WINDOW == 5
SMOOTH_DIVISOR == 10

\* ------------------------------------------------------------ rationals
Abs(x) == IF x < 0 THEN -x ELSE x

RECURSIVE Gcd(_, _)
Gcd(a, b) == IF b = 0 THEN a ELSE Gcd(b, a % b)

\* a rational in lowest terms, denominator positive
Rat(n, d) ==
    LET g == Gcd(Abs(n), Abs(d))
        s == IF d < 0 THEN -1 ELSE 1
    IN  <<s * (n \div g), s * (d \div g)>>

RatAdd(a, b) ==
    IF a[2] = b[2] THEN <<a[1] + b[1], a[2]>>
    ELSE Rat(a[1] * b[2] + b[1] * a[2], a[2] * b[2])
RatLt(a, b) == a[1] * b[2] < b[1] * a[2]
RatLe(a, b) == a[1] * b[2] <= b[1] * a[2]
RatNeg(a) == <<-a[1], a[2]>>

RECURSIVE SumSeq(_, _, _)
\* sum of s[lo..hi], taking s[k] = 0 outside 1..Len(s) (zero padding)
SumSeq(s, lo, hi) ==
    IF lo > hi THEN 0
    ELSE (IF lo >= 1 /\ lo <= Len(s) THEN s[lo] ELSE 0) + SumSeq(s, lo + 1, hi)

RECURSIVE PrefixFrom(_, _, _)
PrefixFrom(s, i, acc) ==
    IF i > Len(s) THEN acc
    ELSE PrefixFrom(s, i + 1, Append(acc, (IF i = 1 THEN 0 ELSE acc[i-1]) + s[i]))

\* the running sums of s: PrefixSums(s)[i] = s[1] + ... + s[i]
PrefixSums(s) == PrefixFrom(s, 1, <<>>)

\* SumSeq(s, lo, hi) read off the running sums p of s
WindowSum(p, lo, hi) ==
    LET a == IF lo < 1 THEN 1 ELSE lo
        b == IF hi > Len(p) THEN Len(p) ELSE hi
    IN  IF a > b THEN 0 ELSE p[b] - (IF a = 1 THEN 0 ELSE p[a-1])

RECURSIVE RatSumSeq(_, _, _)
RatSumSeq(s, lo, hi) ==
    IF lo > hi THEN <<0, 1>>
    ELSE RatAdd(IF lo >= 1 /\ lo <= Len(s) THEN s[lo] ELSE <<0, 1>>,
                RatSumSeq(s, lo + 1, hi))

Min(a, b) == IF a < b THEN a ELSE b
Max(a, b) == IF a > b THEN a ELSE b

\* the sequence a function on 1..n is, with its entries computed once
AsSeq(f) == <<>> \o f

\* the indices 1..n in ascending order; np.where(cond)[0] is
\* SelectSeq(Indices(n), cond)
Indices(n) == AsSeq([i \in 1..n |-> i])

\* ----------------------------------------------------------- numpy pieces
\* np.gradient(f, x) for len >= 2.  With equal spacing h (np.diff(x) all
\* equal) the scalar form: (f[i+1] - f[i-1]) / 2h in the interior.  Otherwise
\* the second-order form for uneven spacing.  One-sided first differences at
\* both ends in either case.
UniformSpacing(x) == \A i \in 2..(Len(x) - 1) : x[i+1] - x[i] = x[2] - x[1]

np_gradient(f, x) ==
    LET n == Len(f)
        uniform == UniformSpacing(x)
    IN  AsSeq([i \in 1..n |->
            IF i = 1 THEN <<f[2] - f[1], x[2] - x[1]>>
            ELSE IF i = n THEN <<f[n] - f[n-1], x[n] - x[n-1]>>
            ELSE IF uniform THEN <<f[i+1] - f[i-1], 2 * (x[2] - x[1])>>
            ELSE LET hs == x[i] - x[i-1]
                     hd == x[i+1] - x[i]
                 IN  Rat(hs * hs * f[i+1] + (hd * hd - hs * hs) * f[i]
                              - hd * hd * f[i-1],
                         hs * hd * (hd + hs))])

\* Length of np.convolve(a, ones(w)/w, mode='same'): max(len(a), w).
np_convolve_same_len(n, w) == Max(n, w)

\* Window of np.convolve(a, ones(w)/w, mode='same') at index i when
\* len(a) >= w: the w entries a[i - w/2 .. i - w/2 + w - 1], zero padded.
WindowLo(i, w) == i - (w \div 2)
WindowHi(i, w) == i - (w \div 2) + w - 1


\* ------------------------------------------------------- defect detector
\* smoothing window: min(5, len(gradient) // 10)
SmoothWindow(n) == Min(SMOOTH_MAX_WINDOW, n \div SMOOTH_DIVISOR)

\* gradient_smooth: np.convolve(gradient, ones(w)/w, 'same') when w > 1,
\* the raw gradient otherwise
SmoothGradient(gradient) ==
    LET w == SmoothWindow(Len(gradient))
    IN  IF w > 1
        THEN AsSeq([i \in 1..Len(gradient) |->
                LET s == RatSumSeq(gradient, WindowLo(i, w), WindowHi(i, w))
                IN  <<s[1], s[2] * w>>])
        ELSE gradient

\* a variant that also flags a gradient of exactly the threshold
IsSharpDrop_Inclusive(g) == RatLe(g, RatNeg(DEFECT_GRADIENT_THRESHOLD))

\* gradient_smooth < -DEFECT_GRADIENT_THRESHOLD
IsSharpDrop(g) == RatLt(g, RatNeg(DEFECT_GRADIENT_THRESHOLD))

SharpDrops(gradient_smooth) ==
    SelectSeq(Indices(Len(gradient_smooth)), LAMBDA i : IsSharpDrop(gradient_smooth[i]))

\* a variant that keeps an index 10 further on in the cluster
SameCluster_Inclusive(prev, cur) == cur - prev <= CLUSTER_GAP

\* sharp_drops[i] - sharp_drops[i-1] < 10 keeps index i in the current cluster
SameCluster(prev, cur) == cur - prev < CLUSTER_GAP

RECURSIVE ClusterFrom(_, _, _, _)
ClusterFrom(drops, i, clusters, current) ==
    IF i > Len(drops) THEN Append(clusters, current)
    ELSE IF SameCluster(drops[i-1], drops[i])
         THEN ClusterFrom(drops, i + 1, clusters, Append(current, drops[i]))
         ELSE ClusterFrom(drops, i + 1, Append(clusters, current), <<drops[i]>>)

Clusters(drops) ==
    IF Len(drops) > 0 THEN ClusterFrom(drops, 2, <<>>, <<drops[1]>>) ELSE <<>>

\* cluster[len(cluster)//2], the code's 0-based index as a 1-based one
ClusterCenter(cluster) == cluster[(Len(cluster) \div 2) + 1]

GradientLocations(wavelength, clusters) ==
    AsSeq([c \in 1..Len(clusters) |-> wavelength[ClusterCenter(clusters[c])]])

\* a variant that also flags a deviation of exactly the threshold
IsAbsorption_Inclusive(transmission, sums, i) ==
    LOCAL_WINDOW * transmission[i]
        - WindowSum(sums, WindowLo(i, LOCAL_WINDOW), WindowHi(i, LOCAL_WINDOW))
      <= -(DEFECT_DROP_PCT * LOCAL_WINDOW)

\* deviation[i] < -DEFECT_DROP_THRESHOLD * 100 with
\* deviation = transmission - local_mean and
\* local_mean[i] = (sum of the 20-sample window at i) / 20
\* (sums is PrefixSums(transmission))
IsAbsorption(transmission, sums, i) ==
    LOCAL_WINDOW * transmission[i]
        - WindowSum(sums, WindowLo(i, LOCAL_WINDOW), WindowHi(i, LOCAL_WINDOW))
      < -(DEFECT_DROP_PCT * LOCAL_WINDOW)

AbsorptionBands(transmission) ==
    LET sums == PrefixSums(transmission)
    IN  SelectSeq(Indices(Len(transmission)), LAMBDA i : IsAbsorption(transmission, sums, i))

\* a variant that only recognises an exact repeat (wl in defect_locations)
AlreadyDetected_ExactMatch(wl, locs) ==
    \E j \in 1..Len(locs) : wl = locs[j]

\* any(abs(wl - loc) < 50 for loc in defect_locations)
AlreadyDetected(wl, locs) ==
    \E j \in 1..Len(locs) : Abs(wl - locs[j]) < DEDUP_RADIUS

\* a variant whose test reads the gradient-pass list only
AddUnique_GradientOnly(wavelength, bands, k, locs) ==
    locs \o AsSeq([m \in 1..Len(SelectSeq(SubSeq(bands, k, Len(bands)),
                                 LAMBDA b : ~AlreadyDetected(wavelength[b], locs))) |->
                  wavelength[SelectSeq(SubSeq(bands, k, Len(bands)),
                                 LAMBDA b : ~AlreadyDetected(wavelength[b], locs))[m]]])

RECURSIVE AddUnique(_, _, _, _)
\* the loop over absorption_bands: the test reads the list the loop itself
\* appends to
AddUnique(wavelength, bands, k, locs) ==
    IF k > Len(bands) THEN locs
    ELSE LET wl == wavelength[bands[k]]
         IN  IF ~AlreadyDetected(wl, locs)
             THEN AddUnique(wavelength, bands, k + 1, Append(locs, wl))
             ELSE AddUnique(wavelength, bands, k + 1, locs)

\* a variant that returns the list as collected
SortLocations_Unsorted(locs) == locs

\* sorted(defect_locations)
SortLocations(locs) == SortSeq(locs, LAMBDA a, b : a < b)

\* numpy broadcasting of two 1-d shapes
Broadcastable(n, m) == n = m \/ n = 1 \/ m = 1

Raised(exc) ==
    [exc |-> exc, gradient |-> <<>>, gradient_smooth |-> <<>>,
     sharp_drops |-> <<>>, clusters |-> <<>>,
     gradient_locations |-> <<>>, absorption_bands |-> <<>>,
     appended |-> <<>>, defect_locations |-> <<>>]

\* _detect_defects: exc is "none" and defect_locations the returned list, or
\* exc names the exception that leaves the function.  The other fields are
\* the function's locals at the return (gradient and gradient_smooth also
\* when local_mean cannot be subtracted): gradient_locations is defect_locations
\* after the cluster loop, appended is defect_locations after the
\* absorption-band loop (before sorted()).
detect_defects(wavelength, transmission) ==
    LET n == Len(transmission)
    IN  \* np.gradient: the coordinate array must match the length of f
        IF Len(wavelength) # n THEN Raised("ValueError")
        \* np.gradient needs two points: np.diff(x)[0] of a 0- or 1-point
        \* coordinate array is out of range
        ELSE IF n < 2 THEN Raised("IndexError")
        \* transmission - local_mean: shapes (n,) and (max(n, 20),)
        ELSE IF ~Broadcastable(n, np_convolve_same_len(n, LOCAL_WINDOW))
        THEN [Raised("ValueError") EXCEPT
                 !.gradient = np_gradient(transmission, wavelength),
                 !.gradient_smooth =
                     SmoothGradient(np_gradient(transmission, wavelength))]
        ELSE LET gradient == np_gradient(transmission, wavelength)
                 gradient_smooth == SmoothGradient(gradient)
                 sharp_drops == SharpDrops(gradient_smooth)
                 clusters == Clusters(sharp_drops)
                 gradient_locations == GradientLocations(wavelength, clusters)
                 absorption_bands == AbsorptionBands(transmission)
                 appended == AddUnique(wavelength, absorption_bands, 1,
                                       gradient_locations)
             IN  [exc |-> "none",
                  gradient |-> gradient,
                  gradient_smooth |-> gradient_smooth,
                  sharp_drops |-> sharp_drops,
                  clusters |-> clusters,
                  gradient_locations |-> gradient_locations,
                  absorption_bands |-> absorption_bands,
                  appended |-> appended,
                  defect_locations |-> SortLocations(appended)]

\* ------------------------------------------------------- metrics engine
\* a variant that takes the Good boundary from the pass/fail threshold
classify_grade_ByVisibleThreshold(avg) ==
    IF RatLe(<<GRADE_EXCELLENT, 1>>, avg) THEN "Excellent"
    ELSE IF RatLe(<<visible_threshold, 1>>, avg) THEN "Good"
    ELSE IF RatLe(<<GRADE_FAIR, 1>>, avg) THEN "Fair"
    ELSE "Poor"

\* a variant with the Good comparison turned round
classify_grade_Flipped(avg) ==
    IF RatLe(<<GRADE_EXCELLENT, 1>>, avg) THEN "Excellent"
    ELSE IF RatLe(avg, <<GRADE_GOOD, 1>>) THEN "Good"
    ELSE IF RatLe(<<GRADE_FAIR, 1>>, avg) THEN "Fair"
    ELSE "Poor"

\* _classify_grade on the rational avg_transmission
classify_grade(avg) ==
    IF RatLe(<<GRADE_EXCELLENT, 1>>, avg) THEN "Excellent"
    ELSE IF RatLe(<<GRADE_GOOD, 1>>, avg) THEN "Good"
    ELSE IF RatLe(<<GRADE_FAIR, 1>>, avg) THEN "Fair"
    ELSE "Poor"

\* np.where(transmission >= threshold)[0], then
\* wavelength[indices[-1]] - wavelength[indices[0]]; 0 when there is none.
\* Reads wavelength at the last qualifying index: the caller checks it exists.
AboveThreshold(transmission, threshold) ==
    SelectSeq(Indices(Len(transmission)), LAMBDA i : transmission[i] >= threshold)

RECURSIVE LongestRun(_, _, _, _, _, _)
LongestRun(wavelength, transmission, threshold, i, start, best) ==
    IF i > Len(transmission) THEN best
    ELSE IF transmission[i] >= threshold
    THEN LET s == IF start = 0 THEN i ELSE start
         IN  LongestRun(wavelength, transmission, threshold, i + 1, s,
                        Max(best, wavelength[i] - wavelength[s]))
    ELSE LongestRun(wavelength, transmission, threshold, i + 1, 0, best)

\* a variant that takes the widest contiguous run at or above the threshold
calculate_bandwidth_LongestRun(wavelength, transmission, threshold) ==
    LongestRun(wavelength, transmission, threshold, 1, 0, 0)

calculate_bandwidth(wavelength, transmission, threshold) ==
    LET indices == AboveThreshold(transmission, threshold)
    IN  IF Len(indices) = 0 THEN 0
        ELSE wavelength[indices[Len(indices)]] - wavelength[indices[1]]

\* a variant whose window leaves out its two ends
VisibleIndices_Exclusive(wavelength) ==
    SelectSeq(Indices(Len(wavelength)), LAMBDA i : wavelength[i] > VISIBLE_LO /\ wavelength[i] < VISIBLE_HI)

\* (wavelength_nm >= 400) & (wavelength_nm <= 700), as the indices it selects
VisibleIndices(wavelength) ==
    SelectSeq(Indices(Len(wavelength)), LAMBDA i : wavelength[i] >= VISIBLE_LO /\ wavelength[i] <= VISIBLE_HI)

\* np.mean(a) for a non-empty sequence
Total(a) == IF Len(a) = 0 THEN 0 ELSE PrefixSums(a)[Len(a)]
np_mean(a) == Rat(Total(a), Len(a))

\* np.max / np.argmax (first occurrence), 1-based
np_max(a) == CHOOSE m \in {a[i] : i \in 1..Len(a)} : \A i \in 1..Len(a) : a[i] <= m
np_argmax(a) == CHOOSE i \in 1..Len(a) : a[i] = np_max(a) /\ \A j \in 1..(i-1) : a[j] # a[i]

\* (std / mean)^2 of a non-empty sequence with a positive sum:
\* (k * sum(x^2) - sum(x)^2) / sum(x)^2
CvSquared(a) ==
    LET k == Len(a)
        s == Total(a)
        q == Total(AsSeq([i \in 1..k |-> a[i] * a[i]]))
    IN  Rat(k * q - s * s, s * s)

\* a variant that takes cv = 0 where the code takes 1
UniformityCv2_ZeroDefault(visible_trans) ==
    IF Len(visible_trans) > 0 /\ Total(visible_trans) > 0
    THEN CvSquared(visible_trans)
    ELSE <<0, 1>>

\* the square of cv for the visible values: std / mean when the mean is
\* positive, else 1; 1 as well when there is no visible value (uniformity
\* is then set to 0 outright)
UniformityCv2(visible_trans) ==
    IF Len(visible_trans) > 0 /\ Total(visible_trans) > 0
    THEN CvSquared(visible_trans)
    ELSE <<1, 1>>

\* floor and ceiling of the square root of a rational q >= 0 times 100
SqrtFloor100(q) ==
    LET m == (10000 * q[1]) \div q[2]
    IN  CHOOSE r \in 0..(100 * (MaxLen + 1)) : r * r <= m /\ (r + 1) * (r + 1) > m
SqrtCeil100(q) ==
    LET r == SqrtFloor100(q)
    IN  IF r * r * q[2] = 10000 * q[1] THEN r ELSE r + 1

\* a variant without the max(0, .)
UniformityScore_Unclamped(cv2) ==
    <<100 - SqrtCeil100(cv2), 100 - SqrtFloor100(cv2)>>

\* uniformity = max(0, 1 - cv) * 100 with cv = sqrt(cv2), as the pair
\* <<floor, ceiling>> of integers that encloses it
UniformityScore(cv2) ==
    <<Max(0, 100 - SqrtCeil100(cv2)), Max(0, 100 - SqrtFloor100(cv2))>>

\* a variant that counts one too few
DefectCount_OffByOne(defect_locations) ==
    IF Len(defect_locations) = 0 THEN 0 ELSE Len(defect_locations) - 1

\* defect_count = len(defect_locations)
DefectCount(defect_locations) == Len(defect_locations)

\* a variant that forgets the defect count
PassQc_TransmissionOnly(avg_visible, threshold, defect_count) ==
    RatLe(<<threshold, 1>>, avg_visible)

\* pass_qc = (avg_visible >= self.visible_threshold) and (defect_count == 0)
PassQc(avg_visible, threshold, defect_count) ==
    RatLe(<<threshold, 1>>, avg_visible) /\ defect_count = 0

NOTE_NOT_COVERED == "Visible range not covered in spectrum"
NOTE_DETECTED == "Detected potential defects"
NOTE_BELOW == "Below transmission threshold"
NOTE_FAILED_DEFECTS == "Failed due to detected defects"

\* a variant that stops at the first failing condition (elif)
FailureNotes_FirstOnly(avg_visible, threshold, defect_count, pass_qc) ==
    IF pass_qc THEN <<>>
    ELSE IF RatLt(avg_visible, <<threshold, 1>>) THEN <<NOTE_BELOW>>
    ELSE IF defect_count > 0 THEN <<NOTE_FAILED_DEFECTS>>
    ELSE <<>>

\* if not pass_qc: the two ifs that append the explanatory notes
FailureNotes(avg_visible, threshold, defect_count, pass_qc) ==
    IF pass_qc THEN <<>>
    ELSE (IF RatLt(avg_visible, <<threshold, 1>>) THEN <<NOTE_BELOW>> ELSE <<>>)
         \o (IF defect_count > 0 THEN <<NOTE_FAILED_DEFECTS>> ELSE <<>>)

NoMetrics ==
    [kind |-> "none", exc |-> "none",
     peak_transmission |-> 0,
     avg_transmission_visible |-> <<0, 1>>,
     avg_transmission_full |-> <<0, 1>>,
     transmission_bandwidth_nm |-> 0,
     uniformity_cv2 |-> <<0, 1>>,
     uniformity_score |-> <<0, 0>>,
     defect_count |-> 0,
     defect_locations |-> <<>>,
     quality_grade |-> "none",
     pass_qc |-> FALSE,
     notes |-> <<>>]

MetricsRaised(exc) == [NoMetrics EXCEPT !.kind = "raised", !.exc = exc]

NotCalled == Raised("not called")

\* The statements of calculate_metrics after _detect_defects has returned
\* defect_locations.  uniformity_cv2 is the square of the local cv (1 when
\* the code takes cv = 1 or sets uniformity = 0 outright).
MetricsRecord(v_threshold, b_threshold, wavelength, transmission, defect_locations) ==
    LET visible == VisibleIndices(wavelength)
        covered == Len(visible) > 0
        visible_trans == AsSeq([k \in 1..Len(visible) |-> transmission[visible[k]]])
        avg_visible == IF covered THEN np_mean(visible_trans)
                       ELSE np_mean(transmission)
        cv2 == UniformityCv2(visible_trans)
        defect_count == DefectCount(defect_locations)
        pass_qc == PassQc(avg_visible, v_threshold, defect_count)
        notes == (IF covered THEN <<>> ELSE <<NOTE_NOT_COVERED>>)
                 \o (IF defect_count > 0 THEN <<NOTE_DETECTED>> ELSE <<>>)
                 \o FailureNotes(avg_visible, v_threshold, defect_count, pass_qc)
    IN  [kind |-> "record", exc |-> "none",
         peak_transmission |-> np_max(transmission),
         avg_transmission_visible |-> avg_visible,
         avg_transmission_full |-> np_mean(transmission),
         transmission_bandwidth_nm |->
             calculate_bandwidth(wavelength, transmission, b_threshold),
         uniformity_cv2 |-> cv2,
         uniformity_score |-> UniformityScore(cv2),
         defect_count |-> defect_count,
         defect_locations |-> defect_locations,
         quality_grade |-> classify_grade(avg_visible),
         pass_qc |-> pass_qc,
         notes |-> notes]

\* The exception, if any, that leaves calculate_metrics before it reaches
\* _detect_defects ("none" when it gets there).
EarlyException(b_threshold, wavelength, transmission) ==
    LET nw == Len(wavelength)
        nt == Len(transmission)
        above == AboveThreshold(transmission, b_threshold)
    IN  \* np.max of an empty array
        IF nt = 0 THEN "ValueError"
        \* wavelength[np.argmax(transmission)]
        ELSE IF np_argmax(transmission) > nw THEN "IndexError"
        \* transmission[visible_mask]: the mask has wavelength's length
        ELSE IF Len(VisibleIndices(wavelength)) > 0 /\ nw # nt THEN "IndexError"
        \* wavelength[indices[-1]] in _calculate_bandwidth
        ELSE IF Len(above) > 0 /\ above[Len(above)] > nw THEN "IndexError"
        ELSE "none"

\* calculate_metrics: <<the outcome, the locals of _detect_defects>>
calculate_metrics(v_threshold, b_threshold, wavelength, transmission) ==
    LET early == EarlyException(b_threshold, wavelength, transmission)
    IN  IF early # "none" THEN <<MetricsRaised(early), NotCalled>>
        ELSE LET d == detect_defects(wavelength, transmission)
             IN  IF d.exc # "none" THEN <<MetricsRaised(d.exc), d>>
                 ELSE <<MetricsRecord(v_threshold, b_threshold,
                                      wavelength, transmission,
                                      d.defect_locations), d>>

\* ------------------------------------------------- spectra that hold NaN
\* A spectrum with NaN cells is the pair of transmission (any number in the
\* NaN cells) and the set nans of its NaN indices.  NaN propagates through
\* arithmetic and every comparison with NaN is False; a value computed
\* without a NaN cell does not depend on the number held there.

\* indices where np.gradient reads a NaN cell: f[i-1] and f[i+1] in the
\* scalar-spacing form, f[i] as well in the uneven form, the two end cells
\* at an end
GradientNaN(wavelength, nans) ==
    LET n == Len(wavelength)
    IN  {i \in 1..n :
            IF i = 1 THEN {1, 2} \cap nans # {}
            ELSE IF i = n THEN {n - 1, n} \cap nans # {}
            ELSE IF UniformSpacing(wavelength) THEN {i - 1, i + 1} \cap nans # {}
            ELSE {i - 1, i, i + 1} \cap nans # {}}

\* indices where np.convolve(a, ones(w)/w, 'same') reads a NaN cell
ConvolveNaN(n, w, nans) ==
    {i \in 1..n : (WindowLo(i, w)..WindowHi(i, w)) \cap nans # {}}

\* indices where gradient_smooth is NaN
SmoothNaN(wavelength, nans) ==
    LET n == Len(wavelength)
        w == SmoothWindow(n)
    IN  IF w > 1 THEN ConvolveNaN(n, w, GradientNaN(wavelength, nans))
        ELSE GradientNaN(wavelength, nans)

\* _detect_defects on a spectrum of 20 or more points with NaN cells
detect_defects_nan(wavelength, transmission, nans) ==
    LET n == Len(transmission)
        gradient == np_gradient(transmission, wavelength)
        gradient_smooth == SmoothGradient(gradient)
        smooth_nan == SmoothNaN(wavelength, nans)
        sharp_drops == SelectSeq(SharpDrops(gradient_smooth),
                                 LAMBDA i : i \notin smooth_nan)
        clusters == Clusters(sharp_drops)
        gradient_locations == GradientLocations(wavelength, clusters)
        local_nan == ConvolveNaN(n, LOCAL_WINDOW, nans)
        absorption_bands == SelectSeq(AbsorptionBands(transmission),
                                      LAMBDA i : i \notin local_nan)
        appended == AddUnique(wavelength, absorption_bands, 1, gradient_locations)
    IN  [exc |-> "none",
         gradient |-> gradient,
         gradient_smooth |-> gradient_smooth,
         sharp_drops |-> sharp_drops,
         clusters |-> clusters,
         gradient_locations |-> gradient_locations,
         absorption_bands |-> absorption_bands,
         appended |-> appended,
         defect_locations |-> SortLocations(appended)]

\* if not pass_qc: avg_visible < threshold is False for a NaN average
NanFailureNotes(avg_nan, avg_visible, threshold, defect_count, pass_qc) ==
    IF pass_qc THEN <<>>
    ELSE (IF ~avg_nan /\ RatLt(avg_visible, <<threshold, 1>>) THEN <<NOTE_BELOW>> ELSE <<>>)
         \o (IF defect_count > 0 THEN <<NOTE_FAILED_DEFECTS>> ELSE <<>>)

\* calculate_metrics on a spectrum of 20 or more points (arrays of equal
\* length) with at least one NaN cell: <<the record, the detector's locals>>.
\* nan_fields names the fields of the record that are NaN (they hold 0
\* here); nan_input is the set of NaN cells.
calculate_metrics_nan(v_threshold, b_threshold, wavelength, transmission, nans) ==
    LET d == detect_defects_nan(wavelength, transmission, nans)
        visible == VisibleIndices(wavelength)
        covered == Len(visible) > 0
        visible_trans == AsSeq([k \in 1..Len(visible) |-> transmission[visible[k]]])
        \* np.mean over the visible cells, or over all cells
        avg_nan == IF covered THEN \E k \in 1..Len(visible) : visible[k] \in nans
                   ELSE TRUE
        avg_visible == IF avg_nan THEN <<0, 1>> ELSE np_mean(visible_trans)
        \* np.mean(visible) > 0 is False for NaN: cv = 1
        cv2 == IF avg_nan THEN <<1, 1>> ELSE UniformityCv2(visible_trans)
        \* transmission >= threshold is False in a NaN cell
        above == SelectSeq(AboveThreshold(transmission, b_threshold),
                           LAMBDA i : i \notin nans)
        defect_count == DefectCount(d.defect_locations)
        pass_qc == ~avg_nan /\ PassQc(avg_visible, v_threshold, defect_count)
        notes == (IF covered THEN <<>> ELSE <<NOTE_NOT_COVERED>>)
                 \o (IF defect_count > 0 THEN <<NOTE_DETECTED>> ELSE <<>>)
                 \o NanFailureNotes(avg_nan, avg_visible, v_threshold, defect_count, pass_qc)
    IN  <<[kind |-> "record", exc |-> "none",
           nan_input |-> nans,
           nan_fields |-> {"peak_transmission", "avg_transmission_full"}
                          \cup (IF avg_nan THEN {"avg_transmission_visible"} ELSE {}),
           peak_transmission |-> 0,
           avg_transmission_visible |-> avg_visible,
           avg_transmission_full |-> <<0, 1>>,
           transmission_bandwidth_nm |->
               IF Len(above) = 0 THEN 0
               ELSE wavelength[above[Len(above)]] - wavelength[above[1]],
           uniformity_cv2 |-> cv2,
           uniformity_score |-> UniformityScore(cv2),
           defect_count |-> defect_count,
           defect_locations |-> d.defect_locations,
           \* every comparison of _classify_grade is False for NaN
           quality_grade |-> IF avg_nan THEN "Poor" ELSE classify_grade(avg_visible),
           pass_qc |-> pass_qc,
           notes |-> notes], d>>

\* ------------------------------------------------------------ the inputs
\* Wavelength grids: n points from w0, step h1 up to the middle point and h2
\* after it (strictly increasing).
Grid(n, w0, h1, h2) ==
    AsSeq([i \in 1..n |->
        IF i <= (n \div 2) + 1 THEN w0 + (i - 1) * h1
        ELSE w0 + (n \div 2) * h1 + (i - 1 - (n \div 2)) * h2])

Starts == {150, 400}
\* <<h1, h2>>: two even grids and one that changes its step in the middle
Steps == {<<10, 10>>, <<50, 50>>, <<25, 10>>}
Bases == {70, 80, 90}
Depths == {12, 55}
Gaps == {10, 11}
\* <<visible_threshold, bandwidth_threshold>>; <<80, 80>> is the default
Thresholds == {<<80, 80>>, <<90, 70>>}

\* A dip lowers width points from pos on by depth.
Covers(d, i) == i >= d.pos /\ i < d.pos + d.width
DipAt(dips, i) ==
    (IF Len(dips) >= 1 /\ Covers(dips[1], i) THEN dips[1].depth ELSE 0)
    + (IF Len(dips) >= 2 /\ Covers(dips[2], i) THEN dips[2].depth ELSE 0)

Profile(n, base, dips) == AsSeq([i \in 1..n |-> Max(0, base - DipAt(dips, i))])

FirstDips(n) == [pos : 1..n, width : 1..MaxWidth, depth : Depths]
SecondDips(n, d) ==
    {[pos |-> d.pos + d.width - 1 + g, width |-> 1, depth |-> dp] :
        g \in {k \in Gaps : d.pos + d.width - 1 + k <= n}, dp \in Depths}

\* no dip, one dip, or a dip and a second one Gaps further on
DipChoices(n) ==
    {<<>>} \cup {<<d>> : d \in FirstDips(n)}
           \cup UNION {{<<d, e>> : e \in SecondDips(n, d)} : d \in FirstDips(n)}

\* the short spectra: a 95 % level from 400 nm with at most one 1-point dip
ShortBases == {95}
ShortStarts == {400}
ShortDips(n) == {<<>>} \cup {<<[pos |-> p, width |-> 1, depth |-> dp]>> : p \in 1..n, dp \in Depths}

\* a dark spectrum with at most one bright line (position 0: no line)
LineLevels == {90}
Line(n, level, pos) == AsSeq([i \in 1..n |-> IF i = pos THEN level ELSE 0])

\* flat spectra of 1..MaxLen points from 200 nm; 21 points 115 nm apart
\* span 200..2500 nm
FlatLevels == {0, 60, 80, 98}
FlatStarts == {200}
FlatSteps == {50, 115}

\* long spectra: 50 points 10 nm apart from 400 nm at 90 %, with one dip
\* at point 25 or a 12 % step there and a 28 % one two points on
WideLens == {50}
WideDepths == {25, 50, 55}
WideDips ==
    {<<[pos |-> 25, width |-> w, depth |-> d]>> : w \in 1..MaxWidth, d \in WideDepths}
    \cup {<<[pos |-> 25, width |-> 1, depth |-> 12],
            [pos |-> 27, width |-> 1, depth |-> 28]>>}

\* spectra with one NaN cell: no dip or a 1-point dip at point 5 or 15
NanDips == {<<>>} \cup {<<[pos |-> q, width |-> 1, depth |-> d]>> : q \in {5, 15}, d \in Depths}

\* lengths of the two arrays of a mismatched call
MismatchLens == {<<nw, nt>> \in (0..3) \X (0..3) : nw # nt}

\* QualityMetrics(sample_id=..., material_type=..., ...): the labels are
\* stored as passed
QualityMetrics(sample_id, material_type, m) ==
    [sample_id |-> sample_id, material_type |-> material_type] @@ m

\* ------------------------------------------------------- the batch run
\* A dataset is [sample_col, rows]: whether the frame has a sample_id
\* column, and its rows in order.  A sample identifier is an integer or a
\* string, as pandas reads the column.
Frame(sample_col, rows) == [sample_col |-> sample_col, rows |-> rows]
IntId(n) == [kind |-> "int", text |-> "", number |-> n]
StrId(t) == [kind |-> "str", text |-> t, number |-> 0]

\* str(sample)
Str(id) == IF id.kind = "int" THEN ToString(id.number) ELSE id.text

Member(x, seq) == \E i \in 1..Len(seq) : seq[i] = x

RECURSIVE Unique(_, _, _)
\* df['sample_id'].unique(): the identifiers in order of first appearance
Unique(rows, k, seen) ==
    IF k > Len(rows) THEN seen
    ELSE IF Member(rows[k].sample_id, seen) THEN Unique(rows, k + 1, seen)
    ELSE Unique(rows, k + 1, Append(seen, rows[k].sample_id))

\* samples: the identifiers, or the first row's material when the frame has
\* no sample_id column (a string, kept as a string identifier)
Samples(df) ==
    IF df.sample_col THEN Unique(df.rows, 1, <<>>)
    ELSE <<StrId(df.rows[1].material_type)>>

\* sample_data = df[df['sample_id'] == sample], or df itself
SampleData(df, sample) ==
    IF df.sample_col THEN SelectSeq(df.rows, LAMBDA r : r.sample_id = sample)
    ELSE df.rows

\* a variant that reads the material off the first row of the whole frame
SampleMaterial_OfFrame(df, sample_data) == df.rows[1].material_type

\* material = sample_data['material_type'].iloc[0]
SampleMaterial(df, sample_data) == sample_data[1].material_type

RECURSIVE JoinNotes(_)
\* '; '.join(notes) if notes else ''
JoinNotes(notes) ==
    IF Len(notes) = 0 THEN ""
    ELSE IF Len(notes) = 1 THEN notes[1]
    ELSE notes[1] \o "; " \o JoinNotes(Tail(notes))

\* the dict appended to results; quality_grade.value is the grade's string
ResultRow(m) ==
    [sample_id |-> m.sample_id,
     material_type |-> m.material_type,
     peak_transmission_pct |-> m.peak_transmission,
     avg_visible_transmission_pct |-> m.avg_transmission_visible,
     transmission_bandwidth_nm |-> m.transmission_bandwidth_nm,
     uniformity_score |-> m.uniformity_score,
     defect_count |-> m.defect_count,
     quality_grade |-> m.quality_grade,
     pass_qc |-> m.pass_qc,
     notes |-> JoinNotes(m.notes)]

\* One pass of the loop body for a sample:
\* what the loop keeps of a sample, r being what calculate_metrics did
MetricsOfSample(r, wavelength, transmission, material) ==
    <<r[1], r[2], wavelength, transmission, material>>

\* <<outcome of calculate_metrics, locals of _detect_defects, the sample's
\*   wavelength column, its transmission column, its material>>
SampleMetrics(v_threshold, b_threshold, df, sample) ==
    LET sample_data == SampleData(df, sample)
        wavelength == AsSeq([i \in 1..Len(sample_data) |-> sample_data[i].wavelength_nm])
        transmission == AsSeq([i \in 1..Len(sample_data) |-> sample_data[i].transmission_percent])
        material == SampleMaterial(df, sample_data)
    IN  MetricsOfSample(calculate_metrics(v_threshold, b_threshold, wavelength, transmission),
                        wavelength, transmission, material)

BatchOutcome(status, exc, results) ==
    [status |-> status, exc |-> exc, results |-> results]

RECURSIVE AnalyzeLoop(_, _, _, _, _, _)
RECURSIVE AfterSample(_, _, _, _, _, _, _)
\* for sample in samples: ...; an exception of calculate_metrics leaves the
\* loop and the function, and the results list with it
AnalyzeLoop(v_threshold, b_threshold, df, samples, k, results) ==
    IF k > Len(samples) THEN BatchOutcome("returned", "none", results)
    ELSE AfterSample(v_threshold, b_threshold, df, samples, k, results,
                     SampleMetrics(v_threshold, b_threshold, df, samples[k]))

\* the rest of an iteration, r being what SampleMetrics gave for samples[k]
AfterSample(v_threshold, b_threshold, df, samples, k, results, r) ==
    IF r[1].kind # "record" THEN BatchOutcome("raised", r[1].exc, <<>>)
    ELSE AnalyzeLoop(v_threshold, b_threshold, df, samples, k + 1,
             Append(results,
                    ResultRow(QualityMetrics(Str(samples[k]), r[5], r[1]))))

\* analyze_dataframe(df) as a whole
analyze_dataframe(v_threshold, b_threshold, df) ==
    \* df['material_type'].iloc[0] of a frame without rows
    IF ~df.sample_col /\ Len(df.rows) = 0 THEN BatchOutcome("raised", "IndexError", <<>>)
    ELSE AnalyzeLoop(v_threshold, b_threshold, df, Samples(df), 1, <<>>)

\* ------------------------------------------------------ the data loader
REQUIRED_COLUMNS == <<"wavelength_nm", "transmission_percent", "material_type">>
VALID_WAVELENGTH_LO == 190
VALID_WAVELENGTH_HI == 25000
VALID_TRANSMISSION_LO == 0
VALID_TRANSMISSION_HI == 100

\* A DataFrame: its column names, its rows (records that hold a value for
\* every column name used here) and the cells <<row, column>> that are NaN.
\* sample_col is 'sample_id' in df.columns.
Table(columns, rows, nan) ==
    [columns |-> columns, rows |-> rows, nan |-> nan,
     sample_col |-> "sample_id" \in columns]
NoTable == Table({}, <<>>, {})

\* name.lower().strip().replace(' ', '_') on the header names used here
Standardize(name) ==
    CASE name = "Wavelength_NM" -> "wavelength_nm"
      [] name = "Transmission Percent" -> "transmission_percent"
      [] name = " material_type " -> "material_type"
      [] OTHER -> name

\* the values of a column that are not NaN (min() and max() skip NaN)
Present(df, c) == {df.rows[i][c] : i \in {k \in 1..Len(df.rows) : <<k, c>> \notin df.nan}}
NanCount(df, c) == Cardinality({i \in 1..Len(df.rows) : <<i, c>> \in df.nan})

\* the warnings of _validate_data, each up to the value it goes on to quote
WARN_BELOW_RANGE == "Wavelength below valid range"
WARN_ABOVE_RANGE == "Wavelength above valid range"
WARN_NEGATIVE == "Negative transmission values found"
WARN_EXCEEDS == "Transmission exceeds 100%"
WarnNaN(c) == "Found NaN values in column " \o c

\* a variant that treats a finding as an error
ValidationRaises_OnFinding(errors) == Len(errors) > 0

\* whether _validate_data raises on what it found: it only logs warnings
ValidationRaises(errors) == FALSE

\* _validate_data: the list self._validation_errors it builds.  The minimum
\* of a column is below a bound when one of its values is; the minimum of
\* a column without values is NaN and compares false.
validate_data(df) ==
    (IF \E v \in Present(df, "wavelength_nm") : v < VALID_WAVELENGTH_LO
     THEN <<WARN_BELOW_RANGE>> ELSE <<>>)
    \o (IF \E v \in Present(df, "wavelength_nm") : v > VALID_WAVELENGTH_HI
        THEN <<WARN_ABOVE_RANGE>> ELSE <<>>)
    \o (IF \E v \in Present(df, "transmission_percent") : v < VALID_TRANSMISSION_LO
        THEN <<WARN_NEGATIVE>> ELSE <<>>)
    \o (IF \E v \in Present(df, "transmission_percent") : v > VALID_TRANSMISSION_HI
        THEN <<WARN_EXCEEDS>> ELSE <<>>)
    \o (IF NanCount(df, REQUIRED_COLUMNS[1]) > 0 THEN <<WarnNaN(REQUIRED_COLUMNS[1])>> ELSE <<>>)
    \o (IF NanCount(df, REQUIRED_COLUMNS[2]) > 0 THEN <<WarnNaN(REQUIRED_COLUMNS[2])>> ELSE <<>>)
    \o (IF NanCount(df, REQUIRED_COLUMNS[3]) > 0 THEN <<WarnNaN(REQUIRED_COLUMNS[3])>> ELSE <<>>)

\* a file of the file system: whether it exists, its header and its cells
CsvFile(exists, header, rows, nan) ==
    [exists |-> exists, header |-> header, rows |-> rows, nan |-> nan]

\* SpectroscopyDataLoader(validate_on_load): the object, then the record of
\* its last call, the frame its last successful load_csv returned and
\* whether its last load_csv raised
NewLoader(validate_on_load) ==
    [validate_on_load |-> validate_on_load,
     is_none |-> TRUE, loaded_data |-> NoTable,
     validation_errors |-> <<>>,
     op |-> "none", arg |-> <<>>, exc |-> "none", returned |-> NoTable,
     answer |-> <<>>, before_is_none |-> TRUE, before |-> NoTable,
     good_is_none |-> TRUE, good |-> NoTable, load_failed |-> FALSE]

LoadOutcome(exc, df, ld) == [exc |-> exc, df |-> df, ld |-> ld]

\* a variant that stores the frame before it checks the columns
load_csv_StoresFirst(ld, file) ==
    LET df == Table({Standardize(h) : h \in file.header}, file.rows, file.nan)
    IN  IF ~file.exists THEN LoadOutcome("FileNotFoundError", NoTable, ld)
        ELSE IF \E k \in 1..Len(REQUIRED_COLUMNS) : REQUIRED_COLUMNS[k] \notin df.columns
        THEN LoadOutcome("ValueError", NoTable,
                         [ld EXCEPT !.is_none = FALSE, !.loaded_data = df])
        ELSE LoadOutcome("none", df, [ld EXCEPT !.is_none = FALSE, !.loaded_data = df])

\* load_csv(filepath) on the loader ld, file being what the path holds
load_csv(ld, file) ==
    LET df == Table({Standardize(h) : h \in file.header}, file.rows, file.nan)
        errors == validate_data(df)
    IN  IF ~file.exists THEN LoadOutcome("FileNotFoundError", NoTable, ld)
        ELSE IF \E k \in 1..Len(REQUIRED_COLUMNS) : REQUIRED_COLUMNS[k] \notin df.columns
        THEN LoadOutcome("ValueError", NoTable, ld)
        ELSE IF ld.validate_on_load /\ ValidationRaises(errors)
        THEN LoadOutcome("ValueError", NoTable, [ld EXCEPT !.validation_errors = errors])
        ELSE LoadOutcome("none", df,
                 [ld EXCEPT !.validation_errors =
                                IF ld.validate_on_load THEN errors ELSE @,
                            !.is_none = FALSE,
                            !.loaded_data = df])

\* df['source_file'] = Path(filepath).name
WithSourceFile(df, name) ==
    Table(df.columns \cup {"source_file"},
          AsSeq([i \in 1..Len(df.rows) |-> [source_file |-> name] @@ df.rows[i]]),
          df.nan)

\* pd.concat([a, b], ignore_index=True): a column one frame lacks is NaN in
\* that frame's rows
Concat2(a, b) ==
    LET columns == a.columns \cup b.columns
        n == Len(a.rows)
    IN  Table(columns, a.rows \o b.rows,
              a.nan \cup {<<c[1] + n, c[2]>> : c \in b.nan}
                    \cup {<<i, c>> : i \in 1..n, c \in columns \ a.columns}
                    \cup {<<i + n, c>> : i \in 1..Len(b.rows), c \in columns \ b.columns})

RECURSIVE ConcatAll(_)
ConcatAll(dataframes) ==
    IF Len(dataframes) = 1 THEN dataframes[1]
    ELSE Concat2(ConcatAll(SubSeq(dataframes, 1, Len(dataframes) - 1)),
                 dataframes[Len(dataframes)])

\* a variant in which the first failing file ends the loop and drops what
\* was loaded
LoadEach_StopsAtFailure(ld, fs, filepaths, k, dataframes) ==
    IF \E j \in 1..Len(filepaths) : load_csv(ld, fs[filepaths[j]]).exc # "none"
    THEN <<(<<>>), ld>>
    ELSE <<AsSeq([j \in 1..Len(filepaths) |->
                WithSourceFile(load_csv(ld, fs[filepaths[j]]).df, filepaths[j])]), ld>>

RECURSIVE LoadEach(_, _, _, _, _)
\* the loop of load_multiple_files: <<dataframes, the loader after it>>.
\* The frame appended is the one load_csv stored in _loaded_data, so the
\* source_file column is added to that one too.
LoadEach(ld, fs, filepaths, k, dataframes) ==
    IF k > Len(filepaths) THEN <<dataframes, ld>>
    ELSE LET r == load_csv(ld, fs[filepaths[k]])
         IN  IF r.exc # "none" THEN LoadEach(r.ld, fs, filepaths, k + 1, dataframes)
             ELSE LET df == WithSourceFile(r.df, filepaths[k])
                  IN  LoadEach([r.ld EXCEPT !.loaded_data = df], fs, filepaths,
                               k + 1, Append(dataframes, df))

\* load_multiple_files(filepaths)
load_multiple_files(ld, fs, filepaths) ==
    LET r == LoadEach(ld, fs, filepaths, 1, <<>>)
    IN  IF Len(r[1]) = 0 THEN LoadOutcome("ValueError", NoTable, r[2])
        ELSE LoadOutcome("none", ConcatAll(r[1]), r[2])

QueryOutcome(exc, answer) == [exc |-> exc, answer |-> answer]

\* get_sample(sample_id): the rows of that sample
get_sample(ld, id) ==
    LET df == ld.loaded_data
        found == SelectSeq(df.rows, LAMBDA r : r.sample_id = id)
    IN  IF ld.is_none THEN QueryOutcome("ValueError", <<>>)
        ELSE IF "sample_id" \notin df.columns THEN QueryOutcome("ValueError", <<>>)
        ELSE IF Len(found) = 0 THEN QueryOutcome("ValueError", <<>>)
        ELSE QueryOutcome("none", found)

\* get_material(material_type): the rows of that material (NaN equals none)
get_material(ld, material) ==
    LET df == ld.loaded_data
        found == SelectSeq(Indices(Len(df.rows)), LAMBDA i : <<i, "material_type">> \notin df.nan /\ df.rows[i].material_type = material)
    IN  IF ld.is_none THEN QueryOutcome("ValueError", <<>>)
        ELSE IF Len(found) = 0 THEN QueryOutcome("ValueError", <<>>)
        ELSE QueryOutcome("none", AsSeq([k \in 1..Len(found) |-> df.rows[found[k]]]))

\* list_samples(): the identifiers in order of first appearance
list_samples(ld) ==
    IF ld.is_none THEN QueryOutcome("ValueError", <<>>)
    ELSE IF "sample_id" \notin ld.loaded_data.columns THEN QueryOutcome("none", <<>>)
    ELSE QueryOutcome("none", Unique(ld.loaded_data.rows, 1, <<>>))

\* (min, max) of a column, NaN for a column without values
Range(df, c) ==
    LET present == Present(df, c)
    IN  IF present = {} THEN [nan |-> TRUE, lo |-> 0, hi |-> 0]
        ELSE [nan |-> FALSE,
              lo |-> CHOOSE v \in present : \A w \in present : v <= w,
              hi |-> CHOOSE v \in present : \A w \in present : w <= v]

RECURSIVE UniqueMaterials(_, _, _)
\* df['material_type'].unique().tolist(): NaN is one of the values
UniqueMaterials(df, k, seen) ==
    IF k > Len(df.rows) THEN seen
    ELSE LET m == IF <<k, "material_type">> \in df.nan THEN "nan"
                  ELSE df.rows[k].material_type
         IN  IF Member(m, seen) THEN UniqueMaterials(df, k + 1, seen)
             ELSE UniqueMaterials(df, k + 1, Append(seen, m))

\* get_summary(): the dict; has_n_samples and has_n_defective tell whether
\* the key is present
get_summary(ld) ==
    LET df == ld.loaded_data
        defective == {df.rows[i].sample_id :
                         i \in {k \in 1..Len(df.rows) : df.rows[k].has_defects}}
    IN  IF ld.is_none THEN QueryOutcome("ValueError", <<>>)
        ELSE IF "has_defects" \in df.columns /\ "sample_id" \notin df.columns
        THEN QueryOutcome("KeyError", <<>>)
        ELSE QueryOutcome("none",
                 [total_rows |-> Len(df.rows),
                  n_materials |-> Cardinality(Present(df, "material_type")),
                  materials |-> UniqueMaterials(df, 1, <<>>),
                  wavelength_range |-> Range(df, "wavelength_nm"),
                  transmission_range |-> Range(df, "transmission_percent"),
                  has_n_samples |-> "sample_id" \in df.columns,
                  n_samples |-> IF "sample_id" \in df.columns
                                THEN Cardinality(Present(df, "sample_id")) ELSE 0,
                  has_n_defective |-> "has_defects" \in df.columns,
                  n_defective |-> IF "has_defects" \in df.columns
                                  THEN Cardinality(defective) ELSE 0])

\* ------------------------------------------------- the analyzer's methods
RESULTS_FILE == "quality_analysis.csv"
REPORT_FILE == "analysis_report.txt"
GENERATED_FILE == "optical_transmission_data.csv"
PLOT_MATERIALS == "material_comparison.png"
PLOT_QUALITY == "quality_distribution.png"
DefectPlot(sample_id) == "defect_" \o sample_id \o ".png"

\* the outcome of a method of the analyzer: the exception, quality_results
\* after it and the files it wrote
AnalyzerOutcome(exc, results, files) == [exc |-> exc, results |-> results, files |-> files]

\* the rest of analyze(), r being what analyze_dataframe did: the results
\* are assigned and quality_analysis.csv is written only if it returned
Analyzed(r, results) ==
    IF r.status = "raised" THEN AnalyzerOutcome(r.exc, results, {})
    ELSE AnalyzerOutcome("none", [is_none |-> FALSE, rows |-> r.results],
                         {RESULTS_FILE})

\* analyze(): ValueError without data; an exception of analyze_dataframe
\* leaves the method before quality_results is assigned
analyze(v_threshold, b_threshold, an, results) ==
    IF an.is_none THEN AnalyzerOutcome("ValueError", results, {})
    ELSE Analyzed(analyze_dataframe(v_threshold, b_threshold, an.data), results)

\* a variant without the guard
ReportRejected_Never(results) == FALSE

\* if self.quality_results is None: raise ValueError
ReportRejected(results) == results.is_none

\* generate_report(): a results frame without rows has no columns, so
\* quality_results['material_type'] is a KeyError
generate_report(an, results) ==
    IF ReportRejected(results) THEN AnalyzerOutcome("ValueError", results, {})
    ELSE IF Len(results.rows) = 0 THEN AnalyzerOutcome("KeyError", results, {})
    ELSE AnalyzerOutcome("none", results, {REPORT_FILE})

\* self.data[self.data['sample_id'] == sample_id] for the string sample_id
\* of a results row: an integer identifier equals no string
RowsOfSample(df, sample_id) ==
    SelectSeq(df.rows, LAMBDA r : r.sample_id.kind = "str" /\ r.sample_id.text = sample_id)

RECURSIVE PlotDefects(_, _, _, _, _, _)
RECURSIVE AfterDefect(_, _, _, _, _, _, _)
\* the loop over the first 5 results rows with defects: <<exception, files>>
PlotDefects(v_threshold, b_threshold, df, defect_samples, k, files) ==
    IF k > Len(defect_samples) \/ k > 5 THEN <<"none", files>>
    ELSE IF "sample_id" \notin df.columns THEN <<"KeyError", files>>
    ELSE LET sample_df == RowsOfSample(df, defect_samples[k].sample_id)
             wavelength == AsSeq([i \in 1..Len(sample_df) |-> sample_df[i].wavelength_nm])
             transmission == AsSeq([i \in 1..Len(sample_df) |-> sample_df[i].transmission_percent])
         IN  AfterDefect(v_threshold, b_threshold, df, defect_samples, k, files,
                         calculate_metrics(v_threshold, b_threshold, wavelength, transmission))

\* the rest of an iteration, r being what calculate_metrics gave
AfterDefect(v_threshold, b_threshold, df, defect_samples, k, files, r) ==
    IF r[1].kind # "record" THEN <<r[1].exc, files>>
    ELSE PlotDefects(v_threshold, b_threshold, df, defect_samples, k + 1,
                     files \cup {DefectPlot(defect_samples[k].sample_id)})

\* generate_visualizations()
generate_visualizations(v_threshold, b_threshold, an, results) ==
    IF an.is_none \/ results.is_none THEN AnalyzerOutcome("ValueError", results, {})
    \* plot_material_comparison is done; plot_quality_distribution reads
    \* quality_df['quality_grade']
    ELSE IF Len(results.rows) = 0
    THEN AnalyzerOutcome("KeyError", results, {PLOT_MATERIALS})
    ELSE LET r == PlotDefects(v_threshold, b_threshold, an.data,
                      SelectSeq(results.rows, LAMBDA row : row.defect_count > 0), 1,
                      {PLOT_MATERIALS, PLOT_QUALITY})
         IN  AnalyzerOutcome(r[1], results, r[2])

\* ------------------------------------------------------------ behaviour
\* analyze() has not been called
IdleBatch ==
    [status |-> "idle", exc |-> "none", df |-> Frame(TRUE, <<>>),
     samples |-> <<>>, position |-> 1, results |-> <<>>]

\* self.quality_results = None
NoResults == [is_none |-> TRUE, rows |-> <<>>]

\* OpticalSpectrumAnalyzer(): self.data = None; then the record of its last
\* call: the method, its exception, the files it wrote, whether data and
\* quality_results were None before it and whether it left them as they
\* were; and whether an analyze() has returned, the data its results were
\* computed from, and whether a report or plot was ever written
NewAnalyzer ==
    [is_none |-> TRUE, data |-> NoTable,
     op |-> "none", exc |-> "none", written |-> {},
     before_is_none |-> TRUE, results_before_none |-> TRUE,
     data_kept |-> TRUE, results_kept |-> TRUE,
     analysed |-> FALSE, analysed_from |-> NoTable, produced |-> FALSE]

\* QualityClassifier(visible_threshold, bandwidth_threshold)
Init ==
    /\ \E th \in Thresholds :
          /\ visible_threshold = th[1]
          /\ bandwidth_threshold = th[2]
    /\ wavelength_nm = <<>>
    /\ transmission_pct = <<>>
    /\ metrics = NoMetrics
    /\ detection = NotCalled
    /\ classified = <<>>
    /\ calls = <<>>
    /\ batch = IdleBatch
    /\ quality_results = NoResults
    /\ loader = NewLoader(TRUE)
    /\ analyzer = NewAnalyzer

\* no call made yet
Idle == metrics.kind = "none" /\ classified = <<>>

\* One call classifier.calculate_metrics(wavelength, transmission).  The call
\* reads only its arguments and the two thresholds, which nothing assigns
\* after __init__, so a behaviour holds one call.
CalculateMetrics(wavelength, transmission) ==
    /\ wavelength_nm' = wavelength
    /\ transmission_pct' = transmission
    /\ LET r == calculate_metrics(visible_threshold, bandwidth_threshold,
                                  wavelength, transmission)
       IN  /\ metrics' = r[1]
           /\ detection' = r[2]
    /\ UNCHANGED <<visible_threshold, bandwidth_threshold, classified, calls,
                   batch, quality_results, loader, analyzer>>

AnalyzeLong ==
    /\ Idle
    /\ \E n \in LOCAL_WINDOW..MaxLen, w0 \in Starts, h \in Steps, b \in Bases :
        \E dips \in DipChoices(n) :
            CalculateMetrics(Grid(n, w0, h[1], h[2]), Profile(n, b, dips))

AnalyzeShort ==
    /\ Idle
    /\ \E n \in 0..Min(MaxLen, LOCAL_WINDOW - 1), w0 \in ShortStarts,
          h \in Steps, b \in ShortBases :
        \E dips \in ShortDips(n) :
            CalculateMetrics(Grid(n, w0, h[1], h[2]), Profile(n, b, dips))

AnalyzeMismatched ==
    /\ Idle
    /\ \E ln \in MismatchLens, w0 \in Starts, h \in Steps, b \in ShortBases :
        CalculateMetrics(Grid(ln[1], w0, h[1], h[2]), Profile(ln[2], b, <<>>))

AnalyzeLine ==
    /\ Idle
    /\ \E n \in LOCAL_WINDOW..MaxLen, w0 \in Starts, h \in Steps, b \in LineLevels :
        \E pos \in 0..n :
            CalculateMetrics(Grid(n, w0, h[1], h[2]), Line(n, b, pos))

AnalyzeFlat ==
    /\ Idle
    /\ \E n \in 1..MaxLen, w0 \in FlatStarts, h \in FlatSteps, c \in FlatLevels :
        CalculateMetrics(Grid(n, w0, h, h), Profile(n, c, <<>>))

AnalyzeWide ==
    /\ Idle
    /\ \E n \in WideLens, dips \in WideDips :
        CalculateMetrics(Grid(n, 400, 10, 10), Profile(n, 90, dips))

\* calculate_metrics on a spectrum whose cell at cell is NaN
AnalyzeNaN ==
    /\ Idle
    /\ \E n \in LOCAL_WINDOW..MaxLen, w0 \in Starts, h \in Steps, b \in Bases :
        \E dips \in NanDips, cell \in 1..n :
            /\ wavelength_nm' = Grid(n, w0, h[1], h[2])
            /\ transmission_pct' = [Profile(n, b, dips) EXCEPT ![cell] = 0]
            /\ LET r == calculate_metrics_nan(visible_threshold, bandwidth_threshold,
                                              Grid(n, w0, h[1], h[2]),
                                              [Profile(n, b, dips) EXCEPT ![cell] = 0],
                                              {cell})
               IN  /\ metrics' = r[1]
                   /\ detection' = r[2]
    /\ UNCHANGED <<visible_threshold, bandwidth_threshold, classified, calls,
                   batch, quality_results, loader, analyzer>>

NextNaN == AnalyzeNaN

SpecNaN == Init /\ [][NextNaN]_vars

Next ==
    \/ AnalyzeWide
    \/ AnalyzeLong
    \/ AnalyzeShort
    \/ AnalyzeMismatched
    \/ AnalyzeLine
    \/ AnalyzeFlat

Spec == Init /\ [][Next]_vars

\* ------------------------------------------------- grading on its own
\* average transmissions in half percents, 65.0 .. 95.0
GradeInputs == {Rat(k, 2) : k \in 130..190}

InitGrade == Init

\* classifier._classify_grade(avg), at most twice in a behaviour
ClassifyGrade(avg) ==
    /\ metrics.kind = "none"
    /\ Len(classified) < MaxGradeCalls
    /\ classified' = Append(classified, <<avg, classify_grade(avg)>>)
    /\ UNCHANGED <<visible_threshold, bandwidth_threshold, wavelength_nm,
                   transmission_pct, metrics, detection, calls,
                   batch, quality_results, loader, analyzer>>

NextGrade == \E avg \in GradeInputs : ClassifyGrade(avg)

SpecGrade == InitGrade /\ [][NextGrade]_vars

\* ------------------------------------- several calls on one classifier
\* a variant that keeps one notes list for the life of the classifier
NotesAtEntry_Carried(previous) ==
    IF Len(previous) = 0 THEN <<>> ELSE previous[Len(previous)].notes_at_return

\* notes = [] : every call starts a list of its own
NotesAtEntry(previous) == <<>>

\* a variant that sorts the transmission array where it lies
ArgumentsAfter_SortedInPlace(wavelength, transmission) ==
    <<wavelength, SortSeq(transmission, LAMBDA a, b : a < b)>>

\* The caller's two arrays when the call returns or raises: every numpy
\* call of calculate_metrics and _detect_defects builds a new array and
\* sorted() a new list; none writes into an argument.
ArgumentsAfter(wavelength, transmission) == <<wavelength, transmission>>

\* <<sample_id, material_type>>
SessionLabels == {<<"S1", "glass">>, <<"S2", "quartz">>}
\* a clean 20-point spectrum, one with a deep dip, and the 7-point one
SessionSpectra ==
    {<<Grid(LOCAL_WINDOW, 400, 10, 10), Profile(LOCAL_WINDOW, 90, <<>>)>>,
     <<Grid(LOCAL_WINDOW, 400, 10, 10),
       Profile(LOCAL_WINDOW, 90, <<[pos |-> 10, width |-> 1, depth |-> 55]>>)>>,
     <<Grid(7, 400, 50, 50),
       Profile(7, 95, <<[pos |-> 4, width |-> 1, depth |-> 55]>>)>>}
SessionGradeInputs == {<<85, 1>>}

CallRecord(fn, wavelength, transmission, labels, result, notes, after) ==
    [fn |-> fn, wavelength |-> wavelength, transmission |-> transmission,
     sample_id |-> labels[1], material_type |-> labels[2],
     thresholds_at_entry |-> <<visible_threshold, bandwidth_threshold>>,
     result |-> result, notes_at_return |-> notes,
     arguments_after |-> after,
     thresholds_after |-> <<visible_threshold', bandwidth_threshold'>>]

\* classifier.calculate_metrics(wavelength, transmission, sample_id,
\* material_type), one of several calls
SessionCalculateMetrics(wavelength, transmission, labels) ==
    /\ Len(calls) < MaxCalls
    /\ UNCHANGED <<visible_threshold, bandwidth_threshold, classified,
                   batch, quality_results, loader, analyzer>>
    /\ LET r == calculate_metrics(visible_threshold, bandwidth_threshold,
                                  wavelength, transmission)
           m == IF r[1].kind = "record"
                THEN [r[1] EXCEPT !.notes = NotesAtEntry(calls) \o @]
                ELSE r[1]
           after == ArgumentsAfter(wavelength, transmission)
       IN  /\ metrics' = m
           /\ detection' = r[2]
           /\ wavelength_nm' = after[1]
           /\ transmission_pct' = after[2]
           /\ calls' = Append(calls,
                    CallRecord("calculate_metrics", wavelength, transmission, labels,
                               QualityMetrics(labels[1], labels[2], m),
                               m.notes, after))

\* classifier._detect_defects(wavelength, transmission), called on its own
SessionDetectDefects(wavelength, transmission) ==
    /\ Len(calls) < MaxCalls
    /\ UNCHANGED <<visible_threshold, bandwidth_threshold, metrics, classified,
                   batch, quality_results, loader, analyzer>>
    /\ LET d == detect_defects(wavelength, transmission)
           after == ArgumentsAfter(wavelength, transmission)
       IN  /\ detection' = d
           /\ wavelength_nm' = after[1]
           /\ transmission_pct' = after[2]
           /\ calls' = Append(calls,
                    CallRecord("_detect_defects", wavelength, transmission,
                               <<"unknown", "unknown">>,
                               [exc |-> d.exc, defect_locations |-> d.defect_locations],
                               <<>>, after))

\* classifier._classify_grade(avg), called on its own
SessionClassifyGrade(avg) ==
    /\ Len(calls) < MaxCalls
    /\ UNCHANGED <<visible_threshold, bandwidth_threshold, wavelength_nm,
                   transmission_pct, metrics, detection, batch, quality_results, loader, analyzer>>
    /\ classified' = Append(classified, <<avg, classify_grade(avg)>>)
    /\ calls' = Append(calls,
             CallRecord("_classify_grade", <<>>, <<>>, <<"unknown", "unknown">>,
                        classify_grade(avg), <<>>, <<>>))

NextSession ==
    \/ \E sp \in SessionSpectra, labels \in SessionLabels :
          SessionCalculateMetrics(sp[1], sp[2], labels)
    \/ \E sp \in SessionSpectra : SessionDetectDefects(sp[1], sp[2])
    \/ \E avg \in SessionGradeInputs : SessionClassifyGrade(avg)

SpecSession == Init /\ [][NextSession]_vars

\* ------------------------------------------- analyze() over a dataset
BatchIds == {IntId(1), StrId("S2"), IntId(3)}
BatchMaterial(id) == IF id.kind = "int" THEN "glass" ELSE "quartz"

\* the rows of one sample: its spectrum sp = <<wavelength, transmission>>
SampleRows(id, sp) ==
    AsSeq([i \in 1..Len(sp[1]) |->
        [sample_id |-> id, material_type |-> BatchMaterial(id),
         wavelength_nm |-> sp[1][i], transmission_percent |-> sp[2][i]]])

RECURSIVE Blocks(_)
\* the samples' rows one sample after the other
Blocks(parts) ==
    IF Len(parts) = 0 THEN <<>> ELSE Head(parts) \o Blocks(Tail(parts))

RECURSIVE Interleaved(_, _)
\* the samples' rows taken in turn, from row i on
Interleaved(parts, i) ==
    LET having == SelectSeq(parts, LAMBDA q : Len(q) >= i)
    IN  IF Len(having) = 0 THEN <<>>
        ELSE AsSeq([k \in 1..Len(having) |-> having[k][i]]) \o Interleaved(parts, i + 1)

RECURSIVE Plans(_)
\* the row blocks of k samples with distinct identifiers, in every order
Plans(k) ==
    IF k = 0 THEN {<<>>}
    ELSE {Append(q, SampleRows(id, sp)) :
             q \in Plans(k - 1), id \in BatchIds, sp \in SessionSpectra}

DistinctIds(parts) ==
    \A i, j \in 1..Len(parts) : i # j => parts[i][1].sample_id # parts[j][1].sample_id

Frames ==
    {Frame(TRUE, <<>>), Frame(FALSE, <<>>)}
    \cup {Frame(FALSE, Blocks(q)) : q \in Plans(1)}
    \cup UNION {{Frame(TRUE, Blocks(q)), Frame(TRUE, Interleaved(q, 1))} :
                   q \in {q0 \in UNION {Plans(k) : k \in 1..MaxSamples} : DistinctIds(q0)}}

BatchIdle == batch.status = "idle" /\ metrics.kind = "none" /\ calls = <<>> /\ classified = <<>>

\* analyzer.analyze() before data was loaded: ValueError, and
\* analyze_dataframe is not called
AnalyzeWithoutData ==
    /\ BatchIdle
    /\ batch' = [batch EXCEPT !.status = "no data", !.exc = "ValueError"]
    /\ UNCHANGED <<visible_threshold, bandwidth_threshold, wavelength_nm,
                   transmission_pct, metrics, detection, classified, calls,
                   quality_results, loader, analyzer>>

\* analyzer.analyze() with self.data = df, up to the loop of
\* analyze_dataframe: results = [], samples = ...
StartAnalysis(df) ==
    /\ BatchIdle
    /\ batch' = IF ~df.sample_col /\ Len(df.rows) = 0
                THEN [batch EXCEPT !.status = "raised", !.exc = "IndexError", !.df = df]
                ELSE [batch EXCEPT !.status = "running", !.df = df,
                                   !.samples = Samples(df)]
    /\ UNCHANGED <<visible_threshold, bandwidth_threshold, wavelength_nm,
                   transmission_pct, metrics, detection, classified, calls,
                   quality_results, loader, analyzer>>

\* one iteration of the loop: the sample's metrics are appended, or the
\* exception of calculate_metrics leaves analyze_dataframe and analyze()
AnalyzeSample ==
    /\ batch.status = "running"
    /\ batch.position <= Len(batch.samples)
    /\ LET sample == batch.samples[batch.position]
           r == SampleMetrics(visible_threshold, bandwidth_threshold, batch.df, sample)
           after == ArgumentsAfter(r[3], r[4])
       IN  /\ metrics' = r[1]
           /\ detection' = r[2]
           /\ wavelength_nm' = after[1]
           /\ transmission_pct' = after[2]
           /\ batch' = IF r[1].kind # "record"
                       THEN [batch EXCEPT !.status = "raised", !.exc = r[1].exc,
                                          !.results = <<>>]
                       ELSE [batch EXCEPT !.position = @ + 1,
                                !.results = Append(@,
                                    ResultRow(QualityMetrics(Str(sample), r[5], r[1])))]
    /\ UNCHANGED <<visible_threshold, bandwidth_threshold, classified, calls,
                   quality_results, loader, analyzer>>

\* return pd.DataFrame(results); analyze() stores it and writes the csv
ReturnResults ==
    /\ batch.status = "running"
    /\ batch.position > Len(batch.samples)
    /\ batch' = [batch EXCEPT !.status = "returned"]
    /\ quality_results' = [is_none |-> FALSE, rows |-> batch.results]
    /\ UNCHANGED <<visible_threshold, bandwidth_threshold, wavelength_nm,
                   transmission_pct, metrics, detection, classified, calls,
                   loader, analyzer>>

NextBatch ==
    \/ AnalyzeWithoutData
    \/ \E df \in Frames : StartAnalysis(df)
    \/ AnalyzeSample
    \/ ReturnResults

SpecBatch == Init /\ [][NextBatch]_vars

\* ------------------------------------------------------ using the loader
LoaderRow(id, material, wl, tr, defect) ==
    [sample_id |-> id, material_type |-> material, wavelength_nm |-> wl,
     transmission_percent |-> tr, has_defects |-> defect]

AllColumns == {"wavelength_nm", "transmission_percent", "material_type",
               "sample_id", "has_defects"}
RequiredOnly == {"wavelength_nm", "transmission_percent", "material_type"}

\* the files the loader is pointed at
FileSystem ==
    [good |-> CsvFile(TRUE, AllColumns,
                 <<LoaderRow(StrId("S2"), "quartz", 400, 90, FALSE),
                   LoaderRow(StrId("S2"), "quartz", 410, 91, FALSE),
                   LoaderRow(IntId(1), "glass", 400, 85, TRUE)>>, {}),
     range |-> CsvFile(TRUE, RequiredOnly,
                 <<LoaderRow(IntId(0), "glass", 150, 0 - 5, FALSE),
                   LoaderRow(IntId(0), "glass", 26000, 120, FALSE)>>, {}),
     edge |-> CsvFile(TRUE, RequiredOnly,
                 <<LoaderRow(IntId(0), "sapphire", 190, 0, FALSE),
                   LoaderRow(IntId(0), "sapphire", 25000, 100, FALSE)>>, {}),
     nan |-> CsvFile(TRUE, RequiredOnly \cup {"sample_id"},
                 <<LoaderRow(StrId("S7"), "glass", 500, 0, FALSE),
                   LoaderRow(StrId("S7"), "", 0, 70, FALSE)>>,
                 {<<1, "transmission_percent">>, <<2, "wavelength_nm">>,
                  <<2, "material_type">>}),
     headers |-> CsvFile(TRUE, {"Wavelength_NM", "Transmission Percent", " material_type "},
                 <<LoaderRow(IntId(0), "quartz", 600, 93, FALSE)>>, {}),
     nocol |-> CsvFile(TRUE, {"wavelength_nm", "material_type"},
                 <<LoaderRow(IntId(0), "quartz", 600, 0, FALSE)>>, {}),
     absent |-> CsvFile(FALSE, {}, <<>>, {})]

Paths == DOMAIN FileSystem
\* the paths handed to load_multiple_files
ListedPaths == {"good", "range", "nocol", "absent"}

RECURSIVE PathLists(_)
PathLists(k) ==
    IF k = 0 THEN {<<>>}
    ELSE PathLists(k - 1)
         \cup {Append(l, q) : l \in {m \in PathLists(k - 1) : Len(m) = k - 1}, q \in ListedPaths}

QueryIds == {StrId("S2"), IntId(1), StrId("S7"), StrId("S9")}
QueryMaterials == {"quartz", "glass", "silicon"}

\* what a call leaves in the record of the last call
LoaderCall(ld, before, op, arg, exc, returned, answer) ==
    [ld EXCEPT !.op = op, !.arg = arg, !.exc = exc, !.returned = returned,
               !.answer = answer,
               !.before_is_none = before.is_none, !.before = before.loaded_data]

LoaderUnchanged ==
    UNCHANGED <<visible_threshold, bandwidth_threshold, wavelength_nm,
                transmission_pct, metrics, detection, classified, calls,
                batch, quality_results, analyzer>>

\* loader.load_csv(path)
LoadCsv(path) ==
    /\ LoaderUnchanged
    /\ LET r == load_csv(loader, FileSystem[path])
           ld == LoaderCall(r.ld, loader, "load_csv", path, r.exc, r.df, <<>>)
       IN  loader' = IF r.exc = "none"
                     THEN [ld EXCEPT !.good_is_none = FALSE, !.good = r.df,
                                     !.load_failed = FALSE]
                     ELSE [ld EXCEPT !.load_failed = TRUE]

\* loader.load_multiple_files(filepaths)
LoadMultipleFiles(filepaths) ==
    /\ LoaderUnchanged
    /\ LET r == load_multiple_files(loader, FileSystem, filepaths)
           ld == LoaderCall(r.ld, loader, "load_multiple_files", filepaths, r.exc, r.df, <<>>)
           loaded == SelectSeq(filepaths, LAMBDA q : load_csv(loader, FileSystem[q]).exc = "none")
           failed == IF Len(filepaths) = 0 THEN loader.load_failed
                     ELSE Len(loaded) = 0 \/ loaded[Len(loaded)] # filepaths[Len(filepaths)]
       IN  loader' = IF Len(loaded) > 0
                     THEN [ld EXCEPT !.good_is_none = FALSE,
                              !.good = WithSourceFile(
                                  load_csv(loader, FileSystem[loaded[Len(loaded)]]).df,
                                  loaded[Len(loaded)]),
                              !.load_failed = failed]
                     ELSE [ld EXCEPT !.load_failed = failed]

\* loader.get_sample(id), get_material(material), list_samples(), get_summary()
GetSample(id) ==
    /\ LoaderUnchanged
    /\ LET r == get_sample(loader, id)
       IN  loader' = LoaderCall(loader, loader, "get_sample", id, r.exc, NoTable, r.answer)

GetMaterial(material) ==
    /\ LoaderUnchanged
    /\ LET r == get_material(loader, material)
       IN  loader' = LoaderCall(loader, loader, "get_material", material, r.exc, NoTable, r.answer)

ListSamples ==
    /\ LoaderUnchanged
    /\ LET r == list_samples(loader)
       IN  loader' = LoaderCall(loader, loader, "list_samples", <<>>, r.exc, NoTable, r.answer)

GetSummary ==
    /\ LoaderUnchanged
    /\ LET r == get_summary(loader)
       IN  loader' = LoaderCall(loader, loader, "get_summary", <<>>, r.exc, NoTable, r.answer)

\* the report and the plots, as against the csv files
IsReportOrPlot(f) == f \notin {RESULTS_FILE, GENERATED_FILE}

\* what a call of the analyzer leaves in the record of its last call; an is
\* the analyzer after the call
AnalyzerCall(an, results, op, exc, files) ==
    [an EXCEPT !.op = op, !.exc = exc, !.written = files,
               !.before_is_none = analyzer.is_none,
               !.results_before_none = quality_results.is_none,
               !.data_kept = an.is_none = analyzer.is_none /\ an.data = analyzer.data,
               !.results_kept = results = quality_results,
               !.produced = analyzer.produced \/ \E f \in files : IsReportOrPlot(f)]

\* analyzer.load_data(path): self.data = self.loader.load_csv(filepath),
\* files being the file system
LoadData(files, path) ==
    /\ UNCHANGED <<visible_threshold, bandwidth_threshold, wavelength_nm,
                   transmission_pct, metrics, detection, classified, calls,
                   batch, quality_results>>
    /\ LET r == load_csv(loader, files[path])
           ld == LoaderCall(r.ld, loader, "load_csv", path, r.exc, r.df, <<>>)
       IN  /\ loader' = IF r.exc = "none"
                        THEN [ld EXCEPT !.good_is_none = FALSE, !.good = r.df,
                                        !.load_failed = FALSE]
                        ELSE [ld EXCEPT !.load_failed = TRUE]
           /\ analyzer' = AnalyzerCall(IF r.exc = "none"
                                       THEN [analyzer EXCEPT !.is_none = FALSE, !.data = r.df]
                                       ELSE analyzer,
                                       quality_results, "load_data", r.exc, {})

\* SpectroscopyDataLoader(validate_on_load)
InitLoader ==
    /\ visible_threshold = 80
    /\ bandwidth_threshold = 80
    /\ wavelength_nm = <<>>
    /\ transmission_pct = <<>>
    /\ metrics = NoMetrics
    /\ detection = NotCalled
    /\ classified = <<>>
    /\ calls = <<>>
    /\ batch = IdleBatch
    /\ quality_results = NoResults
    /\ loader \in {NewLoader(v) : v \in BOOLEAN}
    /\ analyzer = NewAnalyzer

NextLoader ==
    \/ \E path \in Paths : LoadCsv(path)
    \/ \E filepaths \in PathLists(MaxFiles) : LoadMultipleFiles(filepaths)
    \/ \E id \in QueryIds : GetSample(id)
    \/ \E material \in QueryMaterials : GetMaterial(material)
    \/ ListSamples
    \/ GetSummary

SpecLoader == InitLoader /\ [][NextLoader]_vars

\* ---------------------------------------------------- using the analyzer
\* the rows of one sample with the spectrum <<wavelength, transmission>>
SpectrumRows(id, material, sp) ==
    AsSeq([i \in 1..Len(sp[1]) |-> LoaderRow(id, material, sp[1][i], sp[2][i], FALSE)])

\* 20 points from 400 nm at 90 % (clean, or with a 55 % dip at point 10)
\* and 7 points at 95 %
CleanSpectrum == <<Grid(20, 400, 10, 10), Profile(20, 90, <<>>)>>
DipSpectrum == <<Grid(20, 400, 10, 10), Profile(20, 90, <<[pos |-> 10, width |-> 1, depth |-> 55]>>)>>
ShortSpectrum == <<Grid(7, 400, 50, 50), Profile(7, 95, <<>>)>>

WithIds == RequiredOnly \cup {"sample_id"}

\* the files the analyzer is pointed at
AnalyzerFiles ==
    [first |-> CsvFile(TRUE, WithIds,
                  SpectrumRows(StrId("S1"), "quartz", CleanSpectrum)
                  \o SpectrumRows(StrId("S2"), "glass", DipSpectrum), {}),
     second |-> CsvFile(TRUE, WithIds,
                  SpectrumRows(StrId("S3"), "sapphire", CleanSpectrum), {}),
     again |-> CsvFile(TRUE, WithIds,
                  SpectrumRows(StrId("S2"), "glass", CleanSpectrum), {}),
     short |-> CsvFile(TRUE, WithIds,
                  SpectrumRows(StrId("S4"), "glass", ShortSpectrum), {}),
     plain |-> CsvFile(TRUE, RequiredOnly,
                  SpectrumRows(IntId(0), "quartz", DipSpectrum), {}),
     nocol |-> CsvFile(TRUE, {"wavelength_nm", "material_type"},
                  SpectrumRows(IntId(0), "quartz", ShortSpectrum), {}),
     absent |-> CsvFile(FALSE, {}, <<>>, {})]

\* generate_dataset(n_samples_per_material): samples named
\* <material_key>_<number>; the spectra come from the generator's random
\* draws, here one sample of one material, clean or with a defect.
\* pd.concat of no spectra (n_samples = 0) is a ValueError.
GeneratedSpectra == {CleanSpectrum, DipSpectrum}
GeneratedData(sp) ==
    Table(AllColumns, SpectrumRows(StrId("sapphire_0000"), "Sapphire", sp), {})
SampleCounts == {0, 1}

\* analyzer.generate_sample_data(n_samples)
GenerateSampleData(n_samples) ==
    /\ UNCHANGED <<visible_threshold, bandwidth_threshold, wavelength_nm,
                   transmission_pct, metrics, detection, classified, calls,
                   batch, quality_results, loader>>
    /\ IF n_samples = 0
       THEN analyzer' = AnalyzerCall(analyzer, quality_results,
                                     "generate_sample_data", "ValueError", {})
       ELSE \E sp \in GeneratedSpectra :
               analyzer' = AnalyzerCall([analyzer EXCEPT !.is_none = FALSE,
                                                         !.data = GeneratedData(sp)],
                                        quality_results, "generate_sample_data",
                                        "none", {GENERATED_FILE})

\* analyzer.analyze()
Analyze ==
    /\ UNCHANGED <<visible_threshold, bandwidth_threshold, wavelength_nm,
                   transmission_pct, metrics, detection, classified, calls,
                   batch, loader>>
    /\ LET r == analyze(visible_threshold, bandwidth_threshold, analyzer, quality_results)
       IN  /\ quality_results' = r.results
           /\ analyzer' = AnalyzerCall(IF r.exc = "none"
                                       THEN [analyzer EXCEPT !.analysed = TRUE,
                                                !.analysed_from = analyzer.data]
                                       ELSE analyzer,
                                       r.results, "analyze", r.exc, r.files)

\* analyzer.generate_report()
GenerateReport ==
    /\ UNCHANGED <<visible_threshold, bandwidth_threshold, wavelength_nm,
                   transmission_pct, metrics, detection, classified, calls,
                   batch, loader>>
    /\ LET r == generate_report(analyzer, quality_results)
       IN  /\ quality_results' = r.results
           /\ analyzer' = AnalyzerCall(analyzer, r.results, "generate_report",
                                       r.exc, r.files)

\* analyzer.generate_visualizations()
GenerateVisualizations ==
    /\ UNCHANGED <<visible_threshold, bandwidth_threshold, wavelength_nm,
                   transmission_pct, metrics, detection, classified, calls,
                   batch, loader>>
    /\ LET r == generate_visualizations(visible_threshold, bandwidth_threshold,
                                        analyzer, quality_results)
       IN  /\ quality_results' = r.results
           /\ analyzer' = AnalyzerCall(analyzer, r.results, "generate_visualizations",
                                       r.exc, r.files)

\* OpticalSpectrumAnalyzer(): default thresholds, its own loader
InitAnalyzer ==
    /\ visible_threshold = 80
    /\ bandwidth_threshold = 80
    /\ wavelength_nm = <<>>
    /\ transmission_pct = <<>>
    /\ metrics = NoMetrics
    /\ detection = NotCalled
    /\ classified = <<>>
    /\ calls = <<>>
    /\ batch = IdleBatch
    /\ quality_results = NoResults
    /\ loader = NewLoader(TRUE)
    /\ analyzer = NewAnalyzer

NextAnalyzer ==
    \/ \E path \in DOMAIN AnalyzerFiles : LoadData(AnalyzerFiles, path)
    \/ \E n_samples \in SampleCounts : GenerateSampleData(n_samples)
    \/ Analyze
    \/ GenerateReport
    \/ GenerateVisualizations

SpecAnalyzer == InitAnalyzer /\ [][NextAnalyzer]_vars

\* ------------------------------------------- loads that fail, and after
\* the analyzer and its loader (analyzer.loader), pointed at two files that
\* load, one that lacks a required column and one that does not exist
ReloadPaths == {"good", "range", "nocol", "absent"}

NextReload ==
    \/ \E path \in ReloadPaths : LoadCsv(path)
    \/ \E path \in ReloadPaths : LoadData(FileSystem, path)
    \/ \E id \in QueryIds : GetSample(id)
    \/ \E material \in QueryMaterials : GetMaterial(material)
    \/ ListSamples
    \/ GetSummary

SpecReload == InitAnalyzer /\ [][NextReload]_vars

\* =================================================================
\* Properties
\* =================================================================
Returned == metrics.kind = "record"
Called == metrics.kind # "none"
SameLength == Len(wavelength_nm) = Len(transmission_pct)
AvgVisible == metrics.avg_transmission_visible

\* the locations the local-deviation pass appended, in the order appended
LocalLocations ==
    SubSeq(detection.appended, Len(detection.gradient_locations) + 1,
           Len(detection.appended))
Elems(s) == {s[i] : i \in 1..Len(s)}
\* the wavelength of the k-th flagged absorption index
BandWl(k) == wavelength_nm[detection.absorption_bands[k]]
NearGradient(wl) ==
    \E g \in Elems(detection.gradient_locations) : Abs(wl - g) < 50

\* C1: calculate_metrics fails with an InvalidInput error whenever the two
\* arrays are empty or of different lengths; no raw numeric or array
\* exception reaches the caller.
C1_InvalidInputOnBadArrays ==
    (Called /\ (Len(transmission_pct) = 0 \/ ~SameLength))
        => (metrics.kind = "raised" /\ metrics.exc = "InvalidInput")

\* C2: in every record returned, pass_qc is true exactly when the average
\* visible transmission is at least visible_threshold and defect_count is 0;
\* so pass_qc is false whenever defect_count > 0.
C2_PassQcIff ==
    Returned =>
        /\ metrics.pass_qc <=>
              (AvgVisible[1] >= visible_threshold * AvgVisible[2]
               /\ metrics.defect_count = 0)
        /\ metrics.defect_count > 0 => ~metrics.pass_qc

\* a record with defects, transmission at or above the threshold, failed
C2_Witness ==
    /\ Returned
    /\ metrics.defect_count > 0
    /\ AvgVisible[1] >= visible_threshold * AvgVisible[2]
    /\ ~metrics.pass_qc

GradeRank(g) ==
    CASE g = "Poor" -> 0 [] g = "Fair" -> 1 [] g = "Good" -> 2 [] g = "Excellent" -> 3

\* C4: the grade is monotonic in avg_visible under Poor < Fair < Good <
\* Excellent: of any two values classified, the larger never gets the
\* lower grade.
C4_GradeMonotonic ==
    \A i, j \in 1..Len(classified) :
        RatLe(classified[i][1], classified[j][1])
            => GradeRank(classified[i][2]) <= GradeRank(classified[j][2])

\* two values classified, the second larger and graded higher
C4_Witness ==
    /\ Len(classified) = 2
    /\ RatLt(classified[1][1], classified[2][1])
    /\ GradeRank(classified[1][2]) < GradeRank(classified[2][2])

\* C5: on a non-empty spectrum of fewer than 20 points defect detection does
\* not raise, and calculate_metrics returns a record.
C5_ShortSpectrumReturns ==
    (Called /\ SameLength /\ Len(transmission_pct) >= 1
            /\ Len(transmission_pct) < 20)
        => (detection.exc = "none" /\ Returned)

\* C6: on the 7-point spectrum 400..700 nm step 50 with transmission
\* 95,95,95,40,95,95,95 detection completes, the gradient pass yields one
\* cluster, the local-deviation pass flags the dip index, and the merged list
\* has exactly one entry.
C6_SevenPointOneDefect ==
    (Called /\ wavelength_nm = <<400, 450, 500, 550, 600, 650, 700>>
            /\ transmission_pct = <<95, 95, 95, 40, 95, 95, 95>>)
        => /\ Returned
           /\ Len(detection.clusters) = 1
           /\ detection.absorption_bands = <<4>>
           /\ Len(metrics.defect_locations) = 1

\* C7 as stated: a flagged index becomes a new location exactly when its
\* wavelength is not within 50 nm of a gradient-pass location (whatever the
\* same pass added before it).
C7_DedupAgainstGradientOnly ==
    detection.exc = "none" =>
        \A k \in 1..Len(detection.absorption_bands) :
            BandWl(k) \in Elems(LocalLocations) <=> ~NearGradient(BandWl(k))

\* C7 as amended: a flagged index becomes a new location exactly when its
\* wavelength is within 50 nm neither of a gradient-pass location nor of a
\* location the same pass added before it; so of two flagged indices closer
\* than 50 nm to each other at most one is added by the pass.
C7_DedupAgainstWholeList ==
    detection.exc = "none" =>
        /\ \A k \in 1..Len(detection.absorption_bands) :
              BandWl(k) \in Elems(LocalLocations) <=>
                  /\ ~NearGradient(BandWl(k))
                  /\ \A j \in 1..(k - 1) :
                        BandWl(j) \in Elems(LocalLocations)
                            => Abs(BandWl(k) - BandWl(j)) >= 50
        /\ \A j, k \in 1..Len(detection.absorption_bands) :
              (j < k /\ Abs(BandWl(k) - BandWl(j)) < 50)
                  => ~(BandWl(j) \in Elems(LocalLocations)
                       /\ BandWl(k) \in Elems(LocalLocations))
        /\ Elems(LocalLocations) \subseteq
              {BandWl(k) : k \in 1..Len(detection.absorption_bands)}

\* two flagged indices less than 50 nm apart, both 50 nm or more from every
\* gradient-pass location: the first was added, the second was not
C7_Witness ==
    /\ Returned
    /\ \E j, k \in 1..Len(detection.absorption_bands) :
          /\ j < k
          /\ Abs(BandWl(k) - BandWl(j)) < 50
          /\ ~NearGradient(BandWl(j))
          /\ ~NearGradient(BandWl(k))
          /\ BandWl(j) \in Elems(metrics.defect_locations)
          /\ BandWl(k) \notin Elems(metrics.defect_locations)

\* C8: in every returned list no location the local-deviation pass
\* contributed is less than 50 nm from a location the gradient-cluster pass
\* contributed.
C8_NoLocalNearGradient ==
    detection.exc = "none" =>
        /\ \A a \in Elems(LocalLocations), g \in Elems(detection.gradient_locations) :
              Abs(a - g) >= 50
        /\ Elems(metrics.defect_locations)
              = Elems(detection.gradient_locations) \cup Elems(LocalLocations)

\* both passes contributed, one flagged index was dropped as within 50 nm of
\* a gradient-pass location and one at exactly 50 nm was kept
C8_Witness ==
    /\ Returned
    /\ Len(detection.gradient_locations) > 0
    /\ \E k \in 1..Len(detection.absorption_bands) :
          NearGradient(BandWl(k)) /\ BandWl(k) \notin Elems(LocalLocations)
    /\ \E a \in Elems(LocalLocations), g \in Elems(detection.gradient_locations) :
          Abs(a - g) = 50

\* C9: in every record returned defect_count is the length of
\* defect_locations.
C9_CountIsLength ==
    Returned => metrics.defect_count = Len(metrics.defect_locations)

\* a record with two or more defect locations
C9_Witness == Returned /\ Len(metrics.defect_locations) >= 2

StrictlyIncreasing(s) == \A i \in 1..(Len(s) - 1) : s[i] < s[i+1]

\* C10: for a spectrum with strictly increasing wavelengths the returned
\* defect_locations is strictly ascending (sorted, no value twice).
C10_StrictlyAscending ==
    (detection.exc = "none" /\ StrictlyIncreasing(wavelength_nm))
        => /\ StrictlyIncreasing(detection.defect_locations)
           /\ Returned /\ metrics.defect_locations = detection.defect_locations

\* a returned list whose entries were collected out of order
C10_Witness ==
    /\ Returned
    /\ StrictlyIncreasing(wavelength_nm)
    /\ Len(metrics.defect_locations) >= 2
    /\ ~StrictlyIncreasing(detection.appended)

\* C11: in every record returned, 0 <= uniformity_score <= 100.
C11_UniformityInRange ==
    Returned =>
        /\ metrics.uniformity_score[1] >= 0
        /\ metrics.uniformity_score[2] <= 100

\* a record whose visible values vary by more than their mean (cv > 1):
\* the score is 0
C11_Witness ==
    /\ Returned
    /\ RatLt(<<1, 1>>, metrics.uniformity_cv2)
    /\ metrics.uniformity_score = <<0, 0>>

\* the indices whose transmission is at or above bandwidth_threshold
Qualifying == {i \in 1..Len(transmission_pct) : transmission_pct[i] >= bandwidth_threshold}
FirstQualifying == CHOOSE i \in Qualifying : \A j \in Qualifying : i <= j
LastQualifying == CHOOSE i \in Qualifying : \A j \in Qualifying : j <= i

InVisibleWindow == {i \in 1..Len(wavelength_nm) : wavelength_nm[i] >= 400 /\ wavelength_nm[i] <= 700}
RECURSIVE TransmissionSum(_)
TransmissionSum(S) ==
    IF S = {} THEN 0
    ELSE LET i == CHOOSE x \in S : TRUE
         IN  transmission_pct[i] + TransmissionSum(S \ {i})
HasNote(note) == note \in Elems(metrics.notes)

\* C13: avg_transmission_visible is the mean of the transmission values
\* whose wavelength w has 400 <= w <= 700; when no point lies in that window
\* it equals avg_transmission_full (the mean of all values) and the
\* visible-range-not-covered note is in the notes; the note is there in no
\* other case.
C13_VisibleMean ==
    Returned =>
        /\ metrics.avg_transmission_full[1] * Len(transmission_pct)
              = TransmissionSum(1..Len(transmission_pct)) * metrics.avg_transmission_full[2]
        /\ InVisibleWindow # {} =>
              /\ AvgVisible[1] * Cardinality(InVisibleWindow)
                    = TransmissionSum(InVisibleWindow) * AvgVisible[2]
              /\ ~HasNote(NOTE_NOT_COVERED)
        /\ InVisibleWindow = {} =>
              /\ AvgVisible = metrics.avg_transmission_full
              /\ HasNote(NOTE_NOT_COVERED)

\* a record of a spectrum with no point in the window, whose values are not
\* all equal: the full mean and the note
C13_Witness ==
    /\ Returned
    /\ InVisibleWindow = {}
    /\ \E i, j \in 1..Len(transmission_pct) : transmission_pct[i] # transmission_pct[j]
    /\ AvgVisible = metrics.avg_transmission_full
    /\ HasNote(NOTE_NOT_COVERED)

\* the call was made on a flat spectrum at level c > 0 with a point in the
\* visible window, by a classifier with the default thresholds
FlatAt(c) ==
    /\ Called
    /\ SameLength
    /\ Len(transmission_pct) >= 1
    /\ \A i \in 1..Len(transmission_pct) : transmission_pct[i] = c
    /\ InVisibleWindow # {}
    /\ visible_threshold = 80
    /\ bandwidth_threshold = 80
FlatLevel == transmission_pct[1]
WavelengthSpan == wavelength_nm[Len(wavelength_nm)] - wavelength_nm[1]

\* C14: for every flat spectrum at a level c > 0 that covers the visible
\* range, under the default thresholds, a record is returned with
\* defect_count 0, uniformity_score 100, the grade of c, pass_qc exactly when
\* c >= 80 and, when c >= 80, the bandwidth equal to the last wavelength
\* minus the first.
C14_FlatSpectrum ==
    (Len(transmission_pct) >= 1 /\ FlatLevel > 0 /\ FlatAt(FlatLevel)) =>
        /\ Returned
        /\ metrics.defect_count = 0
        /\ metrics.uniformity_score = <<100, 100>>
        /\ metrics.quality_grade = classify_grade(<<FlatLevel, 1>>)
        /\ metrics.pass_qc <=> FlatLevel >= 80
        /\ FlatLevel >= 80 => metrics.transmission_bandwidth_nm = WavelengthSpan

\* C17: in every record with pass_qc false the notes hold the
\* below-threshold note exactly when avg_visible < visible_threshold and the
\* failed-due-to-defects note exactly when defect_count > 0.
C17_FailureNotes ==
    (Returned /\ ~metrics.pass_qc) =>
        /\ HasNote(NOTE_BELOW) <=> AvgVisible[1] < visible_threshold * AvgVisible[2]
        /\ HasNote(NOTE_FAILED_DEFECTS) <=> metrics.defect_count > 0

\* a record that fails on both conditions and carries both notes
C17_Witness ==
    /\ Returned
    /\ ~metrics.pass_qc
    /\ AvgVisible[1] < visible_threshold * AvgVisible[2]
    /\ metrics.defect_count > 0
    /\ HasNote(NOTE_BELOW)
    /\ HasNote(NOTE_FAILED_DEFECTS)

MetricsCalls == {k \in 1..Len(calls) : calls[k].fn = "calculate_metrics"}
SameInputs(i, j) ==
    /\ calls[i].wavelength = calls[j].wavelength
    /\ calls[i].transmission = calls[j].transmission
    /\ calls[i].sample_id = calls[j].sample_id
    /\ calls[i].material_type = calls[j].material_type
    /\ calls[i].thresholds_at_entry = calls[j].thresholds_at_entry

ArrayCalls == {k \in 1..Len(calls) : calls[k].fn \in {"calculate_metrics", "_detect_defects"}}

BatchDone == batch.status \in {"returned", "raised"}
FrameRows == batch.df.rows
FrameIds == {FrameRows[i].sample_id : i \in 1..Len(FrameRows)}
FirstRow(id) ==
    CHOOSE i \in 1..Len(FrameRows) :
        FrameRows[i].sample_id = id /\ \A j \in 1..(i - 1) : FrameRows[j].sample_id # id
RowsOf(id) == SelectSeq(FrameRows, LAMBDA r : r.sample_id = id)
\* calculate_metrics on the rows of one sample alone
Alone(id) ==
    LET own == RowsOf(id)
    IN  calculate_metrics(visible_threshold, bandwidth_threshold,
            AsSeq([i \in 1..Len(own) |-> own[i].wavelength_nm]),
            AsSeq([i \in 1..Len(own) |-> own[i].transmission_percent]))[1]
\* the place of a sample among the samples by first appearance
Rank(id) == 1 + Cardinality({o \in FrameIds : FirstRow(o) < FirstRow(id)})
RowMatches(row, id) ==
    LET m == Alone(id)
    IN  /\ m.kind = "record"
        /\ row.sample_id = Str(id)
        /\ row.material_type = FrameRows[FirstRow(id)].material_type
        /\ row.peak_transmission_pct = m.peak_transmission
        /\ row.avg_visible_transmission_pct = m.avg_transmission_visible
        /\ row.transmission_bandwidth_nm = m.transmission_bandwidth_nm
        /\ row.uniformity_score = m.uniformity_score
        /\ row.defect_count = m.defect_count
        /\ row.quality_grade = m.quality_grade
        /\ row.pass_qc = m.pass_qc
        /\ row.notes = JoinNotes(m.notes)

\* C18: analyze_dataframe returns one record for each distinct sample
\* identifier of the dataset, in the order in which the identifiers first
\* appear, and the fields of each record are those of calculate_metrics on
\* that sample's rows alone.
C18_OneRecordPerSample ==
    (BatchDone /\ batch.df.sample_col) =>
        /\ batch.status = "returned"
        /\ Len(batch.results) = Cardinality(FrameIds)
        /\ \A id \in FrameIds : RowMatches(batch.results[Rank(id)], id)

\* the samples of the dataset whose metrics raise
RaisingIds == {id \in FrameIds : Alone(id).kind = "raised"}

\* C19: when the metrics of one sample of a batch raise, the run is not
\* aborted: it returns, with the records of all the other samples.
C19_FailuresArePerSample ==
    (BatchDone /\ batch.df.sample_col /\ RaisingIds # {}) =>
        /\ batch.status = "returned"
        /\ ~quality_results.is_none
        /\ \A id \in FrameIds \ RaisingIds :
              \E k \in 1..Len(quality_results.rows) :
                  RowMatches(quality_results.rows[k], id)

\* the orders in which the samples of the dataset can be taken
SampleOrders ==
    {o \in [1..Cardinality(FrameIds) -> FrameIds] :
        \A i, j \in 1..Cardinality(FrameIds) : i # j => o[i] # o[j]}
PartsIn(o) == AsSeq([i \in 1..Cardinality(FrameIds) |-> RowsOf(o[i])])
\* the same samples one after the other or row by row in turn, in any order
Rearrangements ==
    UNION {{Frame(TRUE, Blocks(PartsIn(o))), Frame(TRUE, Interleaved(PartsIn(o), 1))} :
              o \in SampleOrders}

LoadedComplete ==
    /\ loader.op = "load_csv"
    /\ FileSystem[loader.arg].exists
    /\ \A k \in 1..Len(REQUIRED_COLUMNS) :
           \E h \in FileSystem[loader.arg].header : Standardize(h) = REQUIRED_COLUMNS[k]

\* the file of the last load_csv holds a wavelength outside [190, 25000],
\* a transmission outside [0, 100] or a NaN in a required column
HasFinding ==
    LET file == FileSystem[loader.arg]
    IN  \E i \in 1..Len(file.rows) :
           \/ /\ <<i, "wavelength_nm">> \notin file.nan
              /\ \/ file.rows[i].wavelength_nm < 190
                 \/ file.rows[i].wavelength_nm > 25000
           \/ /\ <<i, "transmission_percent">> \notin file.nan
              /\ \/ file.rows[i].transmission_percent < 0
                 \/ file.rows[i].transmission_percent > 100
           \/ \E c \in {"wavelength_nm", "transmission_percent", "material_type"} :
                 <<i, c>> \in file.nan

\* the frame returned holds the cells of the file
ReturnedAsRead ==
    /\ loader.exc = "none"
    /\ loader.returned.rows = FileSystem[loader.arg].rows
    /\ loader.returned.nan = FileSystem[loader.arg].nan

RECURSIVE TransmissionSquares(_)
TransmissionSquares(S) ==
    IF S = {} THEN 0
    ELSE LET i == CHOOSE x \in S : TRUE
         IN  transmission_pct[i] * transmission_pct[i] + TransmissionSquares(S \ {i})

\* k * sum(x^2) - sum(x)^2 over the visible values: variance times k^2
VisibleSpread ==
    Cardinality(InVisibleWindow) * TransmissionSquares(InVisibleWindow)
        - TransmissionSum(InVisibleWindow) * TransmissionSum(InVisibleWindow)
VisibleTotalSquared == TransmissionSum(InVisibleWindow) * TransmissionSum(InVisibleWindow)
\* the two in lowest terms
VisibleCommon == Gcd(VisibleSpread, VisibleTotalSquared)
SpreadReduced == VisibleSpread \div VisibleCommon
TotalReduced == VisibleTotalSquared \div VisibleCommon

C22_NotCovered == Returned /\ InVisibleWindow = {} /\ metrics.uniformity_score = <<0, 0>>
C22_Between == Returned /\ metrics.uniformity_score[1] > 0 /\ metrics.uniformity_score[2] < 100

\* ---------------------------------------------------------------- C23
Detected == detection.exc = "none"

RECURSIVE Flatten(_)
Flatten(lists) ==
    IF Len(lists) = 0 THEN <<>>
    ELSE lists[1] \o Flatten(Tail(lists))

\* C23: whenever the detector returns, the flagged indices are ascending
\* and the clusters, read one after the other, are exactly the flagged
\* indices (each index in exactly one cluster); successive indices less
\* than 10 apart share a cluster and indices 10 or more apart do not; and
\* the gradient pass yields one location per cluster, the wavelength at
\* cluster[len(cluster) // 2].
C23_Clusters ==
    Detected =>
        LET drops == detection.sharp_drops
            cl == detection.clusters
        IN  /\ \A i \in 1..(Len(drops) - 1) : drops[i] < drops[i + 1]
            /\ Flatten(cl) = drops
            /\ \A c \in 1..Len(cl) :
                  /\ Len(cl[c]) >= 1
                  /\ \A j \in 1..(Len(cl[c]) - 1) : cl[c][j + 1] - cl[c][j] < 10
            /\ \A c \in 1..(Len(cl) - 1) : cl[c + 1][1] - cl[c][Len(cl[c])] >= 10
            /\ Len(detection.gradient_locations) = Len(cl)
            /\ \A c \in 1..Len(cl) :
                  detection.gradient_locations[c]
                      = wavelength_nm[cl[c][(Len(cl[c]) \div 2) + 1]]

\* two clusters whose nearest indices are exactly 10 apart, the first of
\* them with more than one index
C23_Witness ==
    /\ Detected
    /\ Len(detection.clusters) = 2
    /\ Len(detection.clusters[1]) >= 2
    /\ detection.clusters[2][1]
          - detection.clusters[1][Len(detection.clusters[1])] = 10

\* one cluster that holds two successive indices 9 apart
C23_NineApart ==
    /\ Detected
    /\ \E c \in 1..Len(detection.clusters) :
          \E j \in 1..(Len(detection.clusters[c]) - 1) :
              detection.clusters[c][j + 1] - detection.clusters[c][j] = 9

\* ---------------------------------------------------------------- C24
\* the detector computed the derivative of the call's spectrum
HasGradient == Called /\ Len(detection.gradient) > 0

\* sum of the rationals g[lo..hi] that exist, as a rational
RECURSIVE GradientSum(_, _)
GradientSum(lo, hi) ==
    IF lo > hi THEN <<0, 1>>
    ELSE IF lo < 1 \/ lo > Len(detection.gradient) THEN GradientSum(lo + 1, hi)
    ELSE RatAdd(detection.gradient[lo], GradientSum(lo + 1, hi))

SameRational(a, b) == a[1] * b[2] = b[1] * a[2]

\* min(5, floor(len / 10))
ExpectedWindow ==
    IF Len(detection.gradient) \div 10 < 5 THEN Len(detection.gradient) \div 10 ELSE 5

\* the smoothed derivative at i is strictly below -0.5
BelowHalf(i) ==
    2 * detection.gradient_smooth[i][1] * detection.gradient_smooth[i][2]
        < 0 - detection.gradient_smooth[i][2] * detection.gradient_smooth[i][2]
ExactlyHalf(i) ==
    2 * detection.gradient_smooth[i][1] = 0 - detection.gradient_smooth[i][2]

\* C24: the derivative is smoothed by a centred moving average of
\* min(5, floor(len/10)) samples; for fewer than 20 points (window <= 1)
\* the derivative is used as it is; and an index is flagged exactly when
\* the smoothed derivative there is strictly below -0.5.
C24_SmoothedGradient ==
    HasGradient =>
        LET g == detection.gradient
            sm == detection.gradient_smooth
            n == Len(g)
            w == ExpectedWindow
        IN  /\ Len(sm) = n
            /\ (w <= 1) <=> (n < 20)
            /\ n < 20 => sm = g
            /\ n >= 20 =>
                  \A i \in 1..n :
                      SameRational(<<sm[i][1], sm[i][2]>>,
                          <<GradientSum(i - (w \div 2), i - (w \div 2) + w - 1)[1],
                            GradientSum(i - (w \div 2), i - (w \div 2) + w - 1)[2] * w>>)
            /\ Detected =>
                  \A i \in 1..n : (i \in Elems(detection.sharp_drops)) <=> BelowHalf(i)

\* a 50-point spectrum (window 5) with a flagged index and with an index
\* whose smoothed derivative is exactly -0.5, which is not flagged
C24_Witness ==
    /\ HasGradient
    /\ Detected
    /\ ExpectedWindow = 5
    /\ Len(detection.sharp_drops) > 0
    /\ \E i \in 1..Len(detection.gradient) :
          ExactlyHalf(i) /\ i \notin Elems(detection.sharp_drops)

\* a spectrum of fewer than 20 points whose derivative was left as it is
C24_Unsmoothed ==
    /\ HasGradient
    /\ Len(detection.gradient) < 20
    /\ detection.gradient_smooth = detection.gradient
    /\ \E i \in 1..Len(detection.gradient) : detection.gradient[i][1] # 0

\* ---------------------------------------------------------------- C25
\* 20 * (transmission[i] - local average at i), the local average being
\* the sum of the 20 samples i-10 .. i+9 that exist, over 20
Deviation20(i) ==
    20 * transmission_pct[i]
        - TransmissionSum({j \in (i - 10)..(i + 9) : j >= 1 /\ j <= Len(transmission_pct)})

\* C25: whenever the detector returns (20 or more points) there is one
\* local average per point, and an index is flagged as an absorption band
\* exactly when transmission minus the local average is strictly below -10.
C25_LocalDeviation ==
    Detected =>
        /\ Len(transmission_pct) >= 20
        /\ np_convolve_same_len(Len(transmission_pct), 20) = Len(transmission_pct)
        /\ \A i \in 1..Len(transmission_pct) :
              (i \in Elems(detection.absorption_bands)) <=> Deviation20(i) < 0 - 200

\* a spectrum with a flagged index and with an index whose deviation is
\* exactly -10, which is not flagged
C25_Witness ==
    /\ Detected
    /\ Len(detection.absorption_bands) > 0
    /\ \E i \in 1..Len(transmission_pct) :
          Deviation20(i) = 0 - 200 /\ i \notin Elems(detection.absorption_bands)

\* ---------------------------------------------------------------- C30
\* C30: in every record returned, pass_qc True implies that the notes hold
\* nothing but the visible-range-not-covered note, and pass_qc False
\* implies that the notes are not empty.
C30_NotesMatchVerdict ==
    Returned =>
        /\ metrics.pass_qc =>
              \A k \in 1..Len(metrics.notes) : metrics.notes[k] = NOTE_NOT_COVERED
        /\ ~metrics.pass_qc => Len(metrics.notes) > 0

\* ---------------------------------------------------------------- C26
\* the last call was analyze(), generate_report() or
\* generate_visualizations() and it raised
Rejected ==
    /\ analyzer.op \in {"analyze", "generate_report", "generate_visualizations"}
    /\ analyzer.exc # "none"

\* C26: analyze() raises ValueError while data is None;
\* generate_report() raises ValueError while quality_results is None, which
\* is the case exactly until an analyze() has returned;
\* generate_visualizations() raises ValueError unless both are there; a call
\* that raises leaves data and quality_results as they were; and no report
\* or plot is written before an analyze() has returned.
C26_AnalyzeFirst ==
    /\ analyzer.op = "analyze" /\ analyzer.before_is_none
          => analyzer.exc = "ValueError"
    /\ analyzer.op = "generate_report" /\ analyzer.results_before_none
          => analyzer.exc = "ValueError"
    /\ analyzer.op = "generate_visualizations"
          /\ (analyzer.before_is_none \/ analyzer.results_before_none)
          => analyzer.exc = "ValueError"
    /\ Rejected => analyzer.data_kept /\ analyzer.results_kept
    /\ quality_results.is_none <=> ~analyzer.analysed
    /\ ~analyzer.analysed => ~analyzer.produced
    /\ ~analyzer.analysed => \A f \in analyzer.written : ~IsReportOrPlot(f)

\* data is loaded, no analyze() has returned, and generate_report() was
\* rejected
C26_Witness ==
    /\ analyzer.op = "generate_report"
    /\ ~analyzer.is_none
    /\ ~analyzer.analysed
    /\ analyzer.exc = "ValueError"
    /\ analyzer.written = {}

\* after an analyze() the report and the plots are written
C26_Produced ==
    /\ analyzer.op = "generate_visualizations"
    /\ analyzer.exc = "none"
    /\ analyzer.produced
    /\ DefectPlot("S2") \in analyzer.written

\* ---------------------------------------------------------------- C27
\* the results at hand were computed from data that has been replaced since
Stale ==
    /\ analyzer.analysed
    /\ ~analyzer.is_none
    /\ analyzer.data # analyzer.analysed_from

\* C27: quality_results changes in a successful analyze() only; load_data
\* and generate_sample_data leave it as it is; and with results computed
\* from data that has been replaced since, generate_report() and
\* generate_visualizations() succeed.
C27_StaleResults ==
    /\ ~analyzer.results_kept => analyzer.op = "analyze" /\ analyzer.exc = "none"
    /\ analyzer.op \in {"load_data", "generate_sample_data"} => analyzer.results_kept
    /\ Stale /\ analyzer.op \in {"generate_report", "generate_visualizations"}
          => analyzer.exc = "none"

\* the part of C27 that holds: the frame condition, and the report
C27_FrameOnly ==
    /\ ~analyzer.results_kept => analyzer.op = "analyze" /\ analyzer.exc = "none"
    /\ analyzer.op \in {"load_data", "generate_sample_data"} => analyzer.results_kept
    /\ Stale /\ analyzer.op = "generate_report" => analyzer.exc = "none"

\* ---------------------------------------------------------------- C28
\* the loader as it would be with the last frame a load returned
LastGood == [is_none |-> loader.good_is_none, loaded_data |-> loader.good]

\* C28: a load_csv that raises (FileNotFoundError, or ValueError for a
\* missing required column) leaves the loader's data as it was; get_sample,
\* get_material, list_samples and get_summary answer from the frame the
\* last successful load returned, and raise ValueError when there was none;
\* and a load_data that raises leaves the analyzer's data as it was.
C28_FailedLoadKeepsData ==
    /\ (loader.op = "load_csv" /\ loader.exc # "none") =>
          /\ loader.exc \in {"FileNotFoundError", "ValueError"}
          /\ loader.is_none = loader.before_is_none
          /\ loader.loaded_data = loader.before
    /\ loader.is_none = loader.good_is_none
    /\ loader.loaded_data = loader.good
    /\ loader.op = "get_sample" =>
          /\ loader.exc = get_sample(LastGood, loader.arg).exc
          /\ loader.answer = get_sample(LastGood, loader.arg).answer
    /\ loader.op = "get_material" =>
          /\ loader.exc = get_material(LastGood, loader.arg).exc
          /\ loader.answer = get_material(LastGood, loader.arg).answer
    /\ loader.op = "list_samples" =>
          /\ loader.exc = list_samples(LastGood).exc
          /\ loader.answer = list_samples(LastGood).answer
    /\ loader.op = "get_summary" =>
          /\ loader.exc = get_summary(LastGood).exc
          /\ loader.answer = get_summary(LastGood).answer
    /\ (loader.op \in {"get_sample", "get_material", "list_samples", "get_summary"}
          /\ loader.good_is_none) => loader.exc = "ValueError"
    /\ (analyzer.op = "load_data" /\ analyzer.exc # "none") => analyzer.data_kept

\* a load that raised for a missing column after an earlier load had
\* returned, the analyzer's data still being there
C28_Witness ==
    /\ loader.op = "load_csv"
    /\ loader.exc = "ValueError"
    /\ ~loader.is_none
    /\ Len(loader.loaded_data.rows) > 0
    /\ analyzer.op = "load_data"
    /\ analyzer.exc = "ValueError"
    /\ ~analyzer.is_none

\* a query that raised because the only load so far had raised
C28_NothingLoaded ==
    /\ loader.load_failed
    /\ loader.good_is_none
    /\ loader.op = "get_summary"
    /\ loader.exc = "ValueError"

\* a query answered from the earlier frame after a load that raised
C28_Answered ==
    /\ loader.load_failed
    /\ loader.op = "list_samples"
    /\ loader.exc = "none"
    /\ loader.answer = <<StrId("S2"), IntId(1)>>

\* ---------------------------------------------------------------- C29
\* the path names a file that load_csv loads: it exists and its header
\* holds every required column
Loads(path) ==
    /\ FileSystem[path].exists
    /\ \A c \in {"wavelength_nm", "transmission_percent", "material_type"} :
           \E h \in FileSystem[path].header : Standardize(h) = c

RECURSIVE RowsInOrder(_)
\* the rows of the files of paths that load, in the order of paths, each
\* with the name of its file
RowsInOrder(paths) ==
    IF Len(paths) = 0 THEN <<>>
    ELSE (IF Loads(paths[1])
          THEN AsSeq([i \in 1..Len(FileSystem[paths[1]].rows) |->
                    [source_file |-> paths[1]] @@ FileSystem[paths[1]].rows[i]])
          ELSE <<>>)
         \o RowsInOrder(Tail(paths))

\* C29: load_multiple_files raises nothing but ValueError, and that
\* exactly when none of the files loads; otherwise it returns the rows of
\* the files that load, and of no other, in the order of the paths.
C29_SkipsFailedFiles ==
    loader.op = "load_multiple_files" =>
        /\ loader.exc \in {"none", "ValueError"}
        /\ (loader.exc = "ValueError") <=> (\A k \in 1..Len(loader.arg) : ~Loads(loader.arg[k]))
        /\ loader.exc = "none" => loader.returned.rows = RowsInOrder(loader.arg)

\* a file that fails, then one that loads: its rows are returned
C29_Witness ==
    /\ loader.op = "load_multiple_files"
    /\ Len(loader.arg) = 2
    /\ ~Loads(loader.arg[1])
    /\ Loads(loader.arg[2])
    /\ loader.exc = "none"
    /\ Len(loader.returned.rows) > 0

\* two files that load, the rows of the first before those of the second
C29_TwoFiles ==
    /\ loader.op = "load_multiple_files"
    /\ loader.arg = <<"range", "good">>
    /\ loader.exc = "none"
    /\ Len(loader.returned.rows) = 5
    /\ loader.returned.rows[1].source_file = "range"
    /\ loader.returned.rows[5].source_file = "good"

====
